---- MODULE Spec2Model ----
(***************************************************************************)
(* Simulation core of the platformer: src/src/game.ts (class Game),        *)
(* src/src/enemy.ts (class Enemy) and the Input class (src/README.md).     *)
(*                                                                         *)
(* Numbers.  The program computes in IEEE doubles; the model computes in   *)
(* integers on a grid fine enough that every product and sum the update    *)
(* performs is exact:                                                      *)
(*   time      1 unit = 1/3000 s   (SEC units per second, MS per ms)       *)
(*   velocity  1 unit = 1/300 px/s (VEL units per px/s)                    *)
(*   position  1 unit = 1/900000 px (PX units per pixel)                   *)
(* so that  position += velocity * delta  and  velocity += accel * delta   *)
(* need no rounding.  The largest delta, 1/30 s, is 100 time units.  The   *)
(* only rounded operation is the jump cut (vy * 0.65), truncated towards 0.*)
(* Timestamps (performance.now, requestAnimationFrame) are whole ms.       *)
(***************************************************************************)
EXTENDS Integers, Sequences, FiniteSets, TLC

SEC == 3 * 1000
MS  == SEC \div 1000
VEL == 3 * 100
PX  == VEL * SEC

----------------------------------------------------------------------------
(* Program constants, src/src/game.ts:146-199 and 371-379.                 *)

INTERNAL_WIDTH == 320
CAMERA_PLAYER_SCREEN_X == (INTERNAL_WIDTH * 4) \div 10
GRAVITY == 1200
ACCEL == 900
AIR_ACCEL == 650
MAX_SPEED == 170
JUMP_SPEED == 420
GROUND_FRICTION == 1200
TERMINAL_VELOCITY == 700
COYOTE_TIME_MS == 120
JUMP_BUFFER_MS == 120
COLLISION_SKIN == (3 * PX) \div 4
STEP_UP_HEIGHT == 2

MAX_HEARTS == 3
PLAYER_IFRAMES_SEC == 1 * SEC
PLAYER_KNOCKBACK_X == 190
PLAYER_KNOCKBACK_Y == 220
STOMP_TOLERANCE == 4
STOMP_BOUNCE_SPEED == (JUMP_SPEED * VEL * 45) \div 100

DIG_DURATION_SEC == SEC \div 2
DIG_PARTICLE_LIFE_SEC == (45 * SEC) \div 100
DIG_PARTICLE_LIFE_MIN_SEC == (20 * SEC) \div 100
DIG_PARTICLE_LIFE_MAX_SEC == (35 * SEC) \div 100
DIG_PARTICLE_EMIT_INTERVAL_SEC == (75 * SEC) \div 1000
DIG_PARTICLE_MAX_COUNT == 30
DIG_SPOT_MIN_COUNT == 3
DIG_SPOT_MAX_COUNT == 6
DIG_SPOT_WIDTH == 16
DIG_SPOT_HEIGHT == 6
DIG_MIN_DISTANCE_FROM_START == 28
DIG_MIN_DISTANCE_FROM_ENEMY == 34
DIG_MIN_SPOT_SPACING == 28
DIG_MAX_ATTEMPTS == 300
ENEMY_SPAWN_POOF_MIN_PARTICLES == 8
ENEMY_SPAWN_POOF_MAX_PARTICLES == 12

BONE_POP_DURATION_SEC == (3 * SEC) \div 10
BONE_POP_INITIAL_VY == -120
BONE_POP_GRAVITY == 520
BONE_SETTLE_RANGE == (5 * PX) \div 2

GATE_LOCKED_HINT_SEC == (3 * SEC) \div 2
LEVEL_TITLE_SEC == (3 * SEC) \div 2

PLAYER_START_X == 16
PLAYER_START_Y == 40
PLAYER_SIZE == 16

MAX_ENEMIES_ALIVE == 3
ENEMY_SPAWN_INTERVAL_MIN_SEC == 6
ENEMY_SPAWN_INTERVAL_MAX_SEC == 10
ENEMY_RESPAWN_DELAY_MIN_SEC == 2
ENEMY_RESPAWN_DELAY_MAX_SEC == 3
ENEMY_RESPAWN_RETRY_SEC == 1 * SEC
ENEMY_MIN_PLAYER_DISTANCE_X == 120
ENEMY_MIN_SEPARATION_X == 22
TOY_SIZE == [w |-> 8 * PX, h |-> 8 * PX]
EXIT_GATE_SIZE == [w |-> 18 * PX, h |-> 32 * PX]

(* src/src/enemy.ts:26-27, 220.                                            *)
BASE_SPEED == 56
SPAWN_ANIM_SEC == (18 * SEC) \div 100
HIT_STUN_SEC == (2 * SEC) \div 10

(* -Infinity of lastGroundedTimeMs / lastJumpPressedTimeMs: a timestamp so *)
(* far in the past that  nowMs - NegInfinity  exceeds every window.        *)
NegInfinity == -1000000000

(* null of activeDigSpotIndex; dig spots are indexed from 1 in the model.  *)
NoSpot == 0

----------------------------------------------------------------------------
(* Arithmetic helpers, src/src/game.ts:1791-1804.                          *)

Min(a, b) == IF a < b THEN a ELSE b
Max(a, b) == IF a > b THEN a ELSE b
Abs(a) == IF a < 0 THEN -a ELSE a
Sign(a) == IF a > 0 THEN 1 ELSE IF a < 0 THEN -1 ELSE 0

clamp(value, min, max) == Min(max, Max(min, value))

moveTowards(current, target, maxDelta) ==
  IF Abs(target - current) <= maxDelta
  THEN target
  ELSE current + Sign(target - current) * maxDelta

(* velocity change of an acceleration a (px/s^2) over delta time units *)
Accel(a, delta) == (a * VEL * delta) \div SEC

(* a speed constant given in px/s, in velocity units *)
Speed(v) == v * VEL

(* Math.round of a position, to whole pixels (round half up) *)
Round(p) == ((p + PX \div 2) \div PX) * PX

(* v * 0.65 truncated towards zero *)
JumpCut(v) == IF v < 0 THEN -(((-v) * 65) \div 100) ELSE (v * 65) \div 100

intersectsWithSkin(a, b, skin) ==
  /\ a.x + skin < b.x + b.w
  /\ a.x + a.w - skin > b.x
  /\ a.y + skin < b.y + b.h
  /\ a.y + a.h - skin > b.y

Rect(x, y, w, h) == [x |-> x * PX, y |-> y * PX, w |-> w * PX, h |-> h * PX]
SpawnPoint(x, groundY) == [x |-> x * PX, groundY |-> groundY * PX]
Point(x, y) == [x |-> x * PX, y |-> y * PX]

----------------------------------------------------------------------------
(* Level data, src/src/game.ts:201-365.                                    *)

LEVEL_WILD_GARDEN ==
  [ name |-> "Wild Garden",
    width |-> 1800 * PX,
    platforms |-> <<
      Rect(0, 164, 1800, 16),
      Rect(96, 136, 74, 10), Rect(232, 122, 62, 10),
      Rect(410, 138, 84, 10), Rect(548, 120, 70, 10), Rect(668, 140, 72, 10),
      Rect(804, 128, 86, 10), Rect(932, 108, 72, 10), Rect(1048, 128, 86, 10),
      Rect(1220, 130, 80, 10), Rect(1342, 108, 78, 10), Rect(1462, 90, 72, 10),
      Rect(1584, 132, 88, 10), Rect(1708, 142, 64, 10) >>,
    enemySpawnPoints |-> <<
      SpawnPoint(160, 164), SpawnPoint(448, 164), SpawnPoint(632, 164),
      SpawnPoint(838, 128), SpawnPoint(1078, 128), SpawnPoint(1312, 130),
      SpawnPoint(1496, 90), SpawnPoint(1628, 164), SpawnPoint(1738, 164) >>,
    goldenToyPosition |-> Point(1452, 76),
    exitGatePosition |-> Point(1682, 132),
    digSeed |-> "wild-garden-seed" ]

LEVEL_COURTYARD ==
  [ name |-> "Courtyard",
    width |-> 2200 * PX,
    platforms |-> <<
      Rect(0, 164, 2200, 16),
      Rect(40, 144, 70, 10), Rect(150, 122, 62, 10), Rect(250, 100, 54, 10),
      Rect(350, 132, 72, 10), Rect(500, 112, 58, 10), Rect(620, 90, 54, 10),
      Rect(760, 124, 70, 10), Rect(920, 102, 56, 10), Rect(1040, 82, 54, 10),
      Rect(1180, 126, 72, 10), Rect(1360, 106, 60, 10), Rect(1500, 86, 54, 10),
      Rect(1650, 122, 74, 10), Rect(1830, 100, 60, 10), Rect(1980, 124, 76, 10) >>,
    enemySpawnPoints |-> <<
      SpawnPoint(70, 144), SpawnPoint(390, 132), SpawnPoint(800, 124),
      SpawnPoint(1210, 126), SpawnPoint(1690, 122), SpawnPoint(2020, 124) >>,
    goldenToyPosition |-> Point(1700, 74),
    exitGatePosition |-> Point(2080, 132),
    digSeed |-> "courtyard-seed" ]

LEVEL_SNOW_GARDEN ==
  [ name |-> "Snow Garden",
    width |-> 2200 * PX,
    platforms |-> <<
      Rect(0, 164, 2200, 16),
      Rect(70, 132, 86, 10), Rect(220, 110, 72, 10), Rect(390, 136, 92, 10),
      Rect(540, 102, 74, 10), Rect(700, 126, 84, 10), Rect(890, 98, 80, 10),
      Rect(1080, 136, 96, 10), Rect(1260, 108, 78, 10), Rect(1450, 124, 90, 10),
      Rect(1640, 96, 82, 10), Rect(1830, 130, 94, 10), Rect(2010, 112, 72, 10) >>,
    enemySpawnPoints |-> <<
      SpawnPoint(120, 132), SpawnPoint(430, 136), SpawnPoint(740, 126),
      SpawnPoint(1120, 136), SpawnPoint(1500, 124), SpawnPoint(1860, 130) >>,
    goldenToyPosition |-> Point(1640, 84),
    exitGatePosition |-> Point(2080, 132),
    digSeed |-> "snow-garden-seed" ]

(* LEVELS[0..2] of the source are LEVELS[1..3] here; levelIndex keeps the  *)
(* source's numbering 0..2.                                                *)
LEVELS == << LEVEL_WILD_GARDEN, LEVEL_COURTYARD, LEVEL_SNOW_GARDEN >>

EnemyType == {"rat", "mouse", "tank"}

----------------------------------------------------------------------------
(* Enemy, src/src/enemy.ts.                                                *)

ENEMY_STATS ==
  [ rat   |-> [width |-> 14 * PX, height |-> 12 * PX, speed |-> BASE_SPEED * VEL, hp |-> 1],
    mouse |-> [width |-> 11 * PX, height |-> 9 * PX, speed |-> (BASE_SPEED * VEL * 14) \div 10, hp |-> 1],
    tank  |-> [width |-> 17 * PX, height |-> 14 * PX, speed |-> (BASE_SPEED * VEL * 75) \div 100, hp |-> 2] ]

createEnemy(type, x, y, facing) ==
  [ type |-> type,
    maxHp |-> ENEMY_STATS[type].hp,
    width |-> ENEMY_STATS[type].width,
    height |-> ENEMY_STATS[type].height,
    speed |-> ENEMY_STATS[type].speed,
    x |-> x,
    y |-> y,
    facing |-> facing,
    vx |-> ENEMY_STATS[type].speed * facing,
    vy |-> 0,
    grounded |-> FALSE,
    alive |-> TRUE,
    hp |-> ENEMY_STATS[type].hp,
    hitStunTimerSec |-> 0,
    spawnTimerSec |-> SPAWN_ANIM_SEC ]

getBody(e) == [x |-> e.x, y |-> e.y, w |-> e.width, h |-> e.height]

isAlive(e) == e.alive

(* fault: the hit-stun timer is not consulted *)
canDamagePlayer_IgnoresHitStun(e) == e.alive /\ e.spawnTimerSec <= 0

canDamagePlayer(e) == e.alive /\ e.hitStunTimerSec <= 0 /\ e.spawnTimerSec <= 0

reverseDirection(e) == [e EXCEPT !.facing = IF e.facing = 1 THEN -1 ELSE 1]

(* fault: the probe is taken under the trailing edge *)
hasGroundAhead_ProbesBehind(e, platforms) ==
  LET probeX == IF e.facing = 1 THEN e.x - 2 * PX ELSE e.x + e.width + 2 * PX
      probeY == e.y + e.height + 2 * PX
  IN \E i \in 1..Len(platforms) :
       /\ probeX >= platforms[i].x
       /\ probeX <= platforms[i].x + platforms[i].w
       /\ probeY >= platforms[i].y
       /\ probeY <= platforms[i].y + platforms[i].h + 1 * PX

hasGroundAhead(e, platforms) ==
  LET probeX == IF e.facing = 1 THEN e.x + e.width + 2 * PX ELSE e.x - 2 * PX
      probeY == e.y + e.height + 2 * PX
  IN \E i \in 1..Len(platforms) :
       /\ probeX >= platforms[i].x
       /\ probeX <= platforms[i].x + platforms[i].w
       /\ probeY >= platforms[i].y
       /\ probeY <= platforms[i].y + platforms[i].h + 1 * PX

(* fault: a stomp kills whatever the hit points *)
applyStomp_IgnoresHp(e) ==
  [enemy |-> [e EXCEPT !.hp = e.hp - 1, !.hitStunTimerSec = HIT_STUN_SEC,
                       !.alive = FALSE, !.vx = 0, !.vy = 0],
   result |-> "killed"]

(* fault: a stomp hits an enemy that is dead already *)
applyStomp_HitsDead(e) ==
  [enemy |-> [e EXCEPT !.hp = e.hp - 1, !.hitStunTimerSec = HIT_STUN_SEC,
                       !.alive = e.hp - 1 > 0, !.vx = 0, !.vy = 0],
   result |-> IF e.hp - 1 > 0 THEN "damaged" ELSE "killed"]

(* applyStomp returns the stomped enemy and the result string *)
applyStomp(e) ==
  IF ~e.alive
  THEN [enemy |-> e, result |-> "killed"]
  ELSE LET hit == [e EXCEPT !.hp = e.hp - 1, !.hitStunTimerSec = HIT_STUN_SEC]
       IN IF hit.hp <= 0
          THEN [enemy |-> [hit EXCEPT !.alive = FALSE, !.vx = 0, !.vy = 0],
                result |-> "killed"]
          ELSE [enemy |-> hit, result |-> "damaged"]

(* the horizontal snap loop of Enemy.update, platforms i..Len in order *)
RECURSIVE EnemyResolveX(_, _, _, _)
EnemyResolveX(st, platforms, skin, i) ==
  IF i > Len(platforms)
  THEN st
  ELSE LET p == platforms[i]
           e == st.e
       IN IF ~intersectsWithSkin(getBody(e), p, skin)
          THEN EnemyResolveX(st, platforms, skin, i + 1)
          ELSE EnemyResolveX(
                 [ e |-> IF e.vx > 0 THEN [e EXCEPT !.x = p.x - e.width + skin]
                         ELSE IF e.vx < 0 THEN [e EXCEPT !.x = p.x + p.w - skin]
                         ELSE e,
                   hitWall |-> TRUE ],
                 platforms, skin, i + 1)

(* the vertical snap loop of Enemy.update *)
RECURSIVE EnemyResolveY(_, _, _, _)
EnemyResolveY(e, platforms, skin, i) ==
  IF i > Len(platforms)
  THEN e
  ELSE LET p == platforms[i]
       IN IF ~intersectsWithSkin(getBody(e), p, skin)
          THEN EnemyResolveY(e, platforms, skin, i + 1)
          ELSE EnemyResolveY(
                 [ (IF e.vy > 0
                    THEN [e EXCEPT !.y = p.y - e.height + skin, !.grounded = TRUE]
                    ELSE IF e.vy < 0
                    THEN [e EXCEPT !.y = p.y + p.h - skin]
                    ELSE e)
                   EXCEPT !.vy = 0 ],
                 platforms, skin, i + 1)

enemyUpdate(e0, delta, platforms, gravity, terminalVelocity, skin) ==
  IF ~e0.alive
  THEN e0
  ELSE
    LET e1 == [e0 EXCEPT
                 !.hitStunTimerSec = IF @ > 0 THEN Max(0, @ - delta) ELSE @,
                 !.spawnTimerSec = IF @ > 0 THEN Max(0, @ - delta) ELSE @]
        canMove == e1.hitStunTimerSec <= 0
        e2 == IF canMove /\ e1.grounded /\ ~hasGroundAhead(e1, platforms)
              THEN reverseDirection(e1)
              ELSE e1
        e3 == [e2 EXCEPT !.vx = IF canMove THEN e2.speed * e2.facing ELSE 0]
        e4 == [e3 EXCEPT !.x = @ + e3.vx * delta]
        rx == EnemyResolveX([e |-> e4, hitWall |-> FALSE], platforms, skin, 1)
        e5 == IF ~canMove THEN e4
              ELSE IF rx.hitWall
              THEN LET r == reverseDirection(rx.e)
                   IN [r EXCEPT !.vx = r.speed * r.facing]
              ELSE rx.e
        e6 == [e5 EXCEPT !.vy = Min(@ + Accel(gravity, delta), Speed(terminalVelocity))]
        e7 == [e6 EXCEPT !.y = @ + e6.vy * delta, !.grounded = FALSE]
    IN EnemyResolveY(e7, platforms, skin, 1)

----------------------------------------------------------------------------
(* Input, src/README.md:61-227.                                            *)

CONTROL_KEYS == [ArrowLeft |-> "left", ArrowRight |-> "right", ArrowDown |-> "dig", Space |-> "jumpHeld"]
KeyCodes == DOMAIN CONTROL_KEYS
TOUCH_CONTROLS == {"left", "right", "jump", "dig"}

newInput ==
  [ state |-> [left |-> FALSE, right |-> FALSE, jumpHeld |-> FALSE,
               jumpPressed |-> FALSE, dig |-> FALSE, digPressed |-> FALSE],
    hasConsumedJump |-> FALSE,
    hasConsumedDig |-> FALSE ]

(* the press of the jump control, keyboard (README 101-107) and touch (151-157) *)
PressJump(inp) ==
  [inp EXCEPT !.state.jumpPressed = IF ~inp.state.jumpHeld THEN TRUE ELSE @,
              !.state.jumpHeld = TRUE]

(* the press of the dig control, keyboard (README 109-115) and touch (167-172) *)
PressDig(inp) ==
  [inp EXCEPT !.state.digPressed = IF ~inp.state.dig THEN TRUE ELSE @,
              !.state.dig = TRUE]

(* the keydown listener; codes outside CONTROL_KEYS return early *)
keydown(inp, code) ==
  IF code \notin KeyCodes THEN inp
  ELSE IF CONTROL_KEYS[code] = "jumpHeld" THEN PressJump(inp)
  ELSE IF CONTROL_KEYS[code] = "dig" THEN PressDig(inp)
  ELSE IF CONTROL_KEYS[code] = "left" THEN [inp EXCEPT !.state.left = TRUE]
  ELSE [inp EXCEPT !.state.right = TRUE]

(* the keyup listener *)
keyup(inp, code) ==
  IF code \notin KeyCodes THEN inp
  ELSE IF CONTROL_KEYS[code] = "jumpHeld" THEN [inp EXCEPT !.state.jumpHeld = FALSE]
  ELSE IF CONTROL_KEYS[code] = "dig" THEN [inp EXCEPT !.state.dig = FALSE]
  ELSE IF CONTROL_KEYS[code] = "left" THEN [inp EXCEPT !.state.left = FALSE]
  ELSE [inp EXCEPT !.state.right = FALSE]

(* the pointerdown listener of a touch button *)
press(inp, control) ==
  IF control = "jump" THEN PressJump(inp)
  ELSE IF control = "left" THEN [inp EXCEPT !.state.left = TRUE]
  ELSE IF control = "right" THEN [inp EXCEPT !.state.right = TRUE]
  ELSE PressDig(inp)

(* the pointerup / pointerleave / pointercancel listener of a touch button *)
release(inp, control) ==
  IF control = "jump" THEN [inp EXCEPT !.state.jumpHeld = FALSE]
  ELSE IF control = "left" THEN [inp EXCEPT !.state.left = FALSE]
  ELSE IF control = "right" THEN [inp EXCEPT !.state.right = FALSE]
  ELSE [inp EXCEPT !.state.dig = FALSE]

consumeJumpPressed(inp) ==
  IF inp.hasConsumedJump \/ ~inp.state.jumpPressed
  THEN [input |-> inp, result |-> FALSE]
  ELSE [input |-> [inp EXCEPT !.hasConsumedJump = TRUE], result |-> TRUE]

consumeDigPressed(inp) ==
  IF inp.hasConsumedDig \/ ~inp.state.digPressed
  THEN [input |-> inp, result |-> FALSE]
  ELSE [input |-> [inp EXCEPT !.hasConsumedDig = TRUE], result |-> TRUE]

endFrame(inp) ==
  [inp EXCEPT !.state.jumpPressed = FALSE,
              !.state.digPressed = FALSE,
              !.hasConsumedJump = FALSE,
              !.hasConsumedDig = FALSE]

----------------------------------------------------------------------------
(* Game, src/src/game.ts:381-1714.  A Game object is a record g; a method  *)
(* is an operator from g to the object after the call.  Methods that draw  *)
(* from Math.random return the set of objects the draws can produce.       *)
(* Fields read only by render() (sprites, animation clocks, decorations,   *)
(* pollen, particle position and colour) are left out.                     *)
(*                                                                         *)
(* Two fields are observers, not program state: g.calls counts the         *)
(* invocations of the session callbacks since the last loadLevel, g.ev     *)
(* records what the current loop() call did: the delta it passed to        *)
(* update(), whether the player was grounded at either of the two places   *)
(* that stamp lastGroundedTimeMs (grounded) and at the second of them      *)
(* (landed), the encounters resolved, the callbacks fired, the dig spots   *)
(* for which finishDig produced a bone or a puff (outcomes), the particles *)
(* handed to pushDigParticle (pushed), the enemies whose hazard branch ran *)
(* (hitBy).                                                                *)

GameState == {"playing", "gameOver", "levelComplete", "demoComplete"}
PlayerActionState == {"normal", "digging"}

NoEvents ==
  [ jumped |-> FALSE, consumedJump |-> FALSE, consumedDig |-> FALSE,
    grounded |-> FALSE, landed |-> FALSE, delta |-> 0,
    stomps |-> 0, hazards |-> 0, heartsLost |-> 0,
    onGameOver |-> 0, onLevelComplete |-> 0,
    stomped |-> << >>, sounds |-> {}, outcomes |-> << >>, pushed |-> << >>,
    hitBy |-> << >>, spawns |-> << >> ]

NoCalls == [onGameOver |-> 0, onLevelComplete |-> 0, onDemoComplete |-> 0, stats |-> << >>]

Number(b) == IF b THEN 1 ELSE 0

Sound(g, name) == [g EXCEPT !.ev.sounds = @ \cup {name}]

currentLevel(g) == LEVELS[g.levelIndex + 1]

hasNextLevel(g) == g.levelIndex + 1 < Len(LEVELS)

isGameOver(g) == g.gameState = "gameOver"
isLevelComplete(g) == g.gameState = "levelComplete"
isDemoComplete(g) == g.gameState = "demoComplete"

(* Math.random() draws, sampled at the ends of their ranges *)
SpawnIntervalDraws == {ENEMY_SPAWN_INTERVAL_MIN_SEC * SEC, ENEMY_SPAWN_INTERVAL_MAX_SEC * SEC}
RespawnDelayDraws == {ENEMY_RESPAWN_DELAY_MIN_SEC * SEC, ENEMY_RESPAWN_DELAY_MAX_SEC * SEC}
PoofDraws ==
  { [count |-> ENEMY_SPAWN_POOF_MIN_PARTICLES, life |-> (25 * SEC) \div 100],
    [count |-> ENEMY_SPAWN_POOF_MAX_PARTICLES, life |-> (35 * SEC) \div 100] }
DigBurstDraws ==
  { [count |-> 1, life |-> DIG_PARTICLE_LIFE_MIN_SEC],
    [count |-> 2, life |-> DIG_PARTICLE_LIFE_MAX_SEC] }

Particle(life) == [lifeSec |-> life, maxLifeSec |-> life]

(* fault: the splice takes the newest particles off the end *)
pushDigParticle_EvictsNewest(g, particle) ==
  LET pushed == Append(g.digParticles, particle)
  IN [g EXCEPT !.digParticles = SubSeq(pushed, 1, Min(Len(pushed), DIG_PARTICLE_MAX_COUNT)),
               !.ev.pushed = Append(@, particle)]

pushDigParticle(g, particle) ==
  LET pushed == Append(g.digParticles, particle)
  IN [g EXCEPT !.digParticles =
        IF Len(pushed) > DIG_PARTICLE_MAX_COUNT
        THEN SubSeq(pushed, Len(pushed) - DIG_PARTICLE_MAX_COUNT + 1, Len(pushed))
        ELSE pushed,
               !.ev.pushed = Append(@, particle)]

RECURSIVE PushParticles(_, _, _)
PushParticles(g, count, life) ==
  IF count <= 0 THEN g
  ELSE PushParticles(pushDigParticle(g, Particle(life)), count - 1, life)

----------------------------------------------------------------------------
(* Player physics, src/src/game.ts:709-780 and 1579-1595.                  *)

AnyPlatform(g, rect, skin) ==
  \E i \in 1..Len(currentLevel(g).platforms) :
     intersectsWithSkin(rect, currentLevel(g).platforms[i], skin)

tryStepUp(g, state) ==
  LET movingIntoWall == (state.right /\ g.player.vx > 0) \/ (state.left /\ g.player.vx < 0)
      steppedRect == [x |-> g.player.x, y |-> g.player.y - STEP_UP_HEIGHT * PX,
                      w |-> g.player.w, h |-> g.player.h]
  IN IF ~g.player.grounded \/ ~movingIntoWall
     THEN [g |-> g, result |-> FALSE]
     ELSE IF AnyPlatform(g, steppedRect, COLLISION_SKIN)
     THEN [g |-> g, result |-> FALSE]
     ELSE [g |-> [g EXCEPT !.player.y = @ - STEP_UP_HEIGHT * PX], result |-> TRUE]

(* the platform loop of moveHorizontal, platforms i..Len in order *)
RECURSIVE ResolveHorizontal(_, _, _)
ResolveHorizontal(g, state, i) ==
  IF i > Len(currentLevel(g).platforms)
  THEN g
  ELSE LET platform == currentLevel(g).platforms[i]
       IN IF ~intersectsWithSkin(g.player, platform, COLLISION_SKIN)
          THEN ResolveHorizontal(g, state, i + 1)
          ELSE LET step == tryStepUp(g, state)
               IN IF step.result
                  THEN ResolveHorizontal(step.g, state, i + 1)
                  ELSE LET snapped ==
                             IF g.player.vx > 0 /\ g.player.x + g.player.w > platform.x
                             THEN [g EXCEPT !.player.x = platform.x - g.player.w + COLLISION_SKIN]
                             ELSE IF g.player.vx < 0
                             THEN [g EXCEPT !.player.x = platform.x + platform.w - COLLISION_SKIN]
                             ELSE g
                       IN ResolveHorizontal([snapped EXCEPT !.player.vx = 0], state, i + 1)

(* fault: the horizontal move is not resolved against the platforms *)
moveHorizontal_Unresolved(g, delta, state) ==
  [g EXCEPT !.player.x = @ + g.player.vx * delta]

moveHorizontal(g, delta, state) ==
  ResolveHorizontal([g EXCEPT !.player.x = @ + g.player.vx * delta], state, 1)

(* the platform loop of moveVertical *)
RECURSIVE ResolveVertical(_, _)
ResolveVertical(g, i) ==
  IF i > Len(currentLevel(g).platforms)
  THEN g
  ELSE LET platform == currentLevel(g).platforms[i]
       IN IF ~intersectsWithSkin(g.player, platform, COLLISION_SKIN)
          THEN ResolveVertical(g, i + 1)
          ELSE LET snapped ==
                     IF g.player.vy > 0
                     THEN [g EXCEPT !.player.y = platform.y - g.player.h + COLLISION_SKIN]
                     ELSE IF g.player.vy < 0
                     THEN [g EXCEPT !.player.y = platform.y + platform.h - COLLISION_SKIN]
                     ELSE g
               IN ResolveVertical([snapped EXCEPT !.player.vy = 0], i + 1)

moveVertical(g, delta) ==
  ResolveVertical([g EXCEPT !.player.y = @ + g.player.vy * delta], 1)

(* fault: the player is not clamped to the level *)
clampPlayerToWorldBounds_None(g) == g

clampPlayerToWorldBounds(g) ==
  LET maxX == currentLevel(g).width - g.player.w
  IN IF g.player.x < 0
     THEN [g EXCEPT !.player.x = 0, !.player.vx = Max(0, @)]
     ELSE IF g.player.x > maxX
     THEN [g EXCEPT !.player.x = maxX, !.player.vx = Min(0, @)]
     ELSE g

checkGrounded(g) ==
  AnyPlatform(g, [x |-> g.player.x, y |-> g.player.y + 1 * PX,
                  w |-> g.player.w, h |-> g.player.h], COLLISION_SKIN)

(* fault: the camera follows the player without the clamp *)
updateCamera_Unclamped(g) ==
  [g EXCEPT !.camera = [x |-> Round(g.player.x - CAMERA_PLAYER_SCREEN_X * PX), y |-> 0]]

updateCamera(g) ==
  LET maxCameraX == Max(0, currentLevel(g).width - INTERNAL_WIDTH * PX)
      desiredX == g.player.x - CAMERA_PLAYER_SCREEN_X * PX
  IN [g EXCEPT !.camera = [x |-> Round(clamp(desiredX, 0, maxCameraX)), y |-> 0]]

----------------------------------------------------------------------------
(* Digging, bones and particles, src/src/game.ts:988-1153.                 *)

RECURSIVE FindDigSpot(_, _)
FindDigSpot(g, i) ==
  IF i > Len(g.digSpots) THEN NoSpot
  ELSE IF ~g.digSpots[i].dug /\ intersectsWithSkin(g.player, g.digSpots[i], 0)
  THEN i
  ELSE FindDigSpot(g, i + 1)

(* fault: a spot that is dug already is found as well *)
findDigSpotForPlayer_FindsDug(g) ==
  IF \E i \in 1..Len(g.digSpots) : intersectsWithSkin(g.player, g.digSpots[i], 0)
  THEN CHOOSE i \in 1..Len(g.digSpots) : intersectsWithSkin(g.player, g.digSpots[i], 0)
  ELSE NoSpot

findDigSpotForPlayer(g) == FindDigSpot(g, 1)

spawnBoneFromSpot(g, spot) ==
  LET boneWidth == 8 * PX
      boneHeight == 6 * PX
      groundY == spot.y + spot.h
      startY == groundY - 4 * PX
      targetY == groundY - 12 * PX
      settleY == targetY + BONE_SETTLE_RANGE
  IN [g EXCEPT !.bones = Append(@,
        [ x |-> spot.x + (spot.w - boneWidth) \div 2,
          y |-> startY, w |-> boneWidth, h |-> boneHeight,
          active |-> TRUE,
          vy |-> Speed(BONE_POP_INITIAL_VY),
          state |-> "popping",
          popTimerSec |-> 0,
          startY |-> startY, targetY |-> targetY, settleY |-> settleY ])]

spawnEmptyDigPuff(g, spot) ==
  LET particleCount == 3 + (((spot.x + spot.y) \div PX) % 4)
  IN PushParticles(g, particleCount, DIG_PARTICLE_LIFE_SEC)

(* fault: the target of the dig is not cleared *)
finishDig_KeepsTarget(g) ==
  LET g1 == Sound([g EXCEPT !.playerState = "normal"], "dig")
  IN IF g1.activeDigSpotIndex = NoSpot
     THEN g1
     ELSE LET idx == g1.activeDigSpotIndex
              g2 == g1
          IN IF idx > Len(g2.digSpots) \/ g2.digSpots[idx].dug
             THEN g2
             ELSE LET g3 == [g2 EXCEPT !.digSpots[idx].dug = TRUE]
                      g4 == [g3 EXCEPT !.ev.outcomes = Append(@, idx)]
                  IN IF g4.digSpots[idx].hasBone
                     THEN spawnBoneFromSpot(g4, g4.digSpots[idx])
                     ELSE spawnEmptyDigPuff(g4, g4.digSpots[idx])

finishDig(g) ==
  LET g1 == Sound([g EXCEPT !.playerState = "normal"], "dig")
  IN IF g1.activeDigSpotIndex = NoSpot
     THEN g1
     ELSE LET idx == g1.activeDigSpotIndex
              g2 == [g1 EXCEPT !.activeDigSpotIndex = NoSpot]
          IN IF idx > Len(g2.digSpots) \/ g2.digSpots[idx].dug
             THEN g2
             ELSE LET g3 == [g2 EXCEPT !.digSpots[idx].dug = TRUE]
                      g4 == [g3 EXCEPT !.ev.outcomes = Append(@, idx)]
                  IN IF g4.digSpots[idx].hasBone
                     THEN spawnBoneFromSpot(g4, g4.digSpots[idx])
                     ELSE spawnEmptyDigPuff(g4, g4.digSpots[idx])

(* the while loop of emitDigParticlesWhileDigging *)
RECURSIVE EmitBursts(_)
EmitBursts(g) ==
  IF g.digEmitTimerSec > 0
  THEN {g}
  ELSE LET g1 == [g EXCEPT !.digEmitTimerSec = @ + DIG_PARTICLE_EMIT_INTERVAL_SEC]
       IN UNION { EmitBursts(PushParticles(g1, d.count, d.life)) : d \in DigBurstDraws }

emitDigParticlesWhileDigging(g, delta) ==
  IF g.activeDigSpotIndex = NoSpot \/ g.activeDigSpotIndex > Len(g.digSpots)
  THEN {g}
  ELSE EmitBursts([g EXCEPT !.digEmitTimerSec = @ - delta])

(* fault: a bone is picked up in any state, popping included *)
updateBone_PickupAnyState(g, i, delta) ==
  LET bone == g.bones[i]
  IN IF ~bone.active THEN g
     ELSE
       LET b1 == IF bone.state # "popping" THEN bone
                 ELSE
                   LET t == bone.popTimerSec + delta
                       vy == bone.vy + Accel(BONE_POP_GRAVITY, delta)
                       y == bone.y + vy * delta
                       y2 == IF t < (BONE_POP_DURATION_SEC * 75) \div 100
                             THEN Max(bone.targetY, y)
                             ELSE Min(bone.settleY, Max(bone.targetY, y))
                   IN IF t >= BONE_POP_DURATION_SEC
                      THEN [bone EXCEPT !.popTimerSec = t, !.state = "idle",
                                        !.y = bone.settleY, !.vy = 0]
                      ELSE [bone EXCEPT !.popTimerSec = t, !.vy = vy, !.y = y2]
       IN IF intersectsWithSkin(g.player, b1, 0)
          THEN Sound([g EXCEPT !.bones[i] = [b1 EXCEPT !.active = FALSE],
                               !.bonesCollected = @ + 1], "bonePickup")
          ELSE [g EXCEPT !.bones[i] = b1]

(* fault: a picked-up bone stays active *)
updateBone_StaysActive(g, i, delta) ==
  LET bone == g.bones[i]
  IN IF ~bone.active THEN g
     ELSE
       LET b1 == IF bone.state # "popping" THEN bone
                 ELSE
                   LET t == bone.popTimerSec + delta
                       vy == bone.vy + Accel(BONE_POP_GRAVITY, delta)
                       y == bone.y + vy * delta
                       y2 == IF t < (BONE_POP_DURATION_SEC * 75) \div 100
                             THEN Max(bone.targetY, y)
                             ELSE Min(bone.settleY, Max(bone.targetY, y))
                   IN IF t >= BONE_POP_DURATION_SEC
                      THEN [bone EXCEPT !.popTimerSec = t, !.state = "idle",
                                        !.y = bone.settleY, !.vy = 0]
                      ELSE [bone EXCEPT !.popTimerSec = t, !.vy = vy, !.y = y2]
       IN IF b1.state = "idle" /\ intersectsWithSkin(g.player, b1, 0)
          THEN Sound([g EXCEPT !.bones[i] = b1,
                               !.bonesCollected = @ + 1], "bonePickup")
          ELSE [g EXCEPT !.bones[i] = b1]

updateBone(g, i, delta) ==
  LET bone == g.bones[i]
  IN IF ~bone.active THEN g
     ELSE
       LET b1 == IF bone.state # "popping" THEN bone
                 ELSE
                   LET t == bone.popTimerSec + delta
                       vy == bone.vy + Accel(BONE_POP_GRAVITY, delta)
                       y == bone.y + vy * delta
                       y2 == IF t < (BONE_POP_DURATION_SEC * 75) \div 100
                             THEN Max(bone.targetY, y)
                             ELSE Min(bone.settleY, Max(bone.targetY, y))
                   IN IF t >= BONE_POP_DURATION_SEC
                      THEN [bone EXCEPT !.popTimerSec = t, !.state = "idle",
                                        !.y = bone.settleY, !.vy = 0]
                      ELSE [bone EXCEPT !.popTimerSec = t, !.vy = vy, !.y = y2]
       IN IF b1.state = "idle" /\ intersectsWithSkin(g.player, b1, 0)
          THEN Sound([g EXCEPT !.bones[i] = [b1 EXCEPT !.active = FALSE],
                               !.bonesCollected = @ + 1], "bonePickup")
          ELSE [g EXCEPT !.bones[i] = b1]

RECURSIVE UpdateBones(_, _, _)
UpdateBones(g, i, delta) ==
  IF i > Len(g.bones) THEN g
  ELSE UpdateBones(updateBone(g, i, delta), i + 1, delta)

(* the particle loop: every lifeSec counts down, expired particles are spliced out *)
RECURSIVE UpdateParticles(_, _)
UpdateParticles(ps, delta) ==
  IF ps = << >> THEN << >>
  ELSE LET p == [Head(ps) EXCEPT !.lifeSec = @ - delta]
       IN IF p.lifeSec <= 0
          THEN UpdateParticles(Tail(ps), delta)
          ELSE << p >> \o UpdateParticles(Tail(ps), delta)

updateBonesAndParticles(g, delta) ==
  LET g1 == UpdateBones(g, 1, delta)
  IN [g1 EXCEPT !.digParticles = UpdateParticles(@, delta)]

----------------------------------------------------------------------------
(* Spawner, src/src/game.ts:836-958.                                       *)

emitEnemySpawnPoof(g, spawnRect) ==
  { PushParticles(g, d.count, d.life) : d \in PoofDraws }

(* the four tests of one shuffled candidate, game.ts:876-908 *)
CandidateRect(enemyType, spawnPoint) ==
  [ x |-> spawnPoint.x,
    y |-> spawnPoint.groundY - ENEMY_STATS[enemyType].height - PX \div 100,
    w |-> ENEMY_STATS[enemyType].width,
    h |-> ENEMY_STATS[enemyType].height ]

(* fault: the distance to the player is not tested *)
CandidateAccepted_IgnoresPlayer(g, candidate) ==
  LET candidateCenterX == candidate.x + candidate.w \div 2
      tooCloseToEnemy ==
        \E i \in 1..Len(g.enemies) :
           Abs((g.enemies[i].x + g.enemies[i].width \div 2) - candidateCenterX)
             < ENEMY_MIN_SEPARATION_X * PX
      hasGroundBelow ==
        \E i \in 1..Len(currentLevel(g).platforms) :
           LET platform == currentLevel(g).platforms[i]
               footX == candidate.x + candidate.w \div 2
               footY == candidate.y + candidate.h + 2 * PX
           IN /\ footX >= platform.x /\ footX <= platform.x + platform.w
              /\ footY >= platform.y /\ footY <= platform.y + platform.h + 2 * PX
  IN /\ ~tooCloseToEnemy
     /\ ~AnyPlatform(g, candidate, 0)
     /\ hasGroundBelow

CandidateAccepted(g, candidate) ==
  LET playerCenterX == g.player.x + g.player.w \div 2
      candidateCenterX == candidate.x + candidate.w \div 2
      tooCloseToEnemy ==
        \E i \in 1..Len(g.enemies) :
           Abs((g.enemies[i].x + g.enemies[i].width \div 2) - candidateCenterX)
             < ENEMY_MIN_SEPARATION_X * PX
      hasGroundBelow ==
        \E i \in 1..Len(currentLevel(g).platforms) :
           LET platform == currentLevel(g).platforms[i]
               footX == candidate.x + candidate.w \div 2
               footY == candidate.y + candidate.h + 2 * PX
           IN /\ footX >= platform.x /\ footX <= platform.x + platform.w
              /\ footY >= platform.y /\ footY <= platform.y + platform.h + 2 * PX
  IN /\ ~(Abs(candidateCenterX - playerCenterX) < ENEMY_MIN_PLAYER_DISTANCE_X * PX)
     /\ ~tooCloseToEnemy
     /\ ~AnyPlatform(g, candidate, 0)
     /\ hasGroundBelow

(* pickEnemyType: every type has positive weight *)
pickEnemyType == EnemyType

(* observer: one record per call of spawnEnemyIfPossible, with the player *)
(* and the active set as they were when it was called                      *)
SpawnCall(g, before, enemyType, result) ==
  [g EXCEPT !.ev.spawns = Append(@, [ result |-> result, enemyType |-> enemyType,
                                      player |-> before.player,
                                      before |-> before.enemies,
                                      after |-> g.enemies ])]

(* fault: the spawn does not look at the number of enemies alive *)
spawnEnemyIfPossible_NoCap(g) ==
  UNION {
    { [g |-> [g EXCEPT !.enemies = Append(@, createEnemy(enemyType, candidate.x, candidate.y, 1))],
       result |-> TRUE]
      : candidate \in { CandidateRect(enemyType, currentLevel(g).enemySpawnPoints[i])
                        : i \in 1..Len(currentLevel(g).enemySpawnPoints) } }
    : enemyType \in pickEnemyType }

(* The shuffle visits the spawn points in a random order and the first     *)
(* accepted one is taken: any accepted spawn point can be the one.         *)
spawnEnemyIfPossible(g) ==
  IF Len(g.enemies) >= MAX_ENEMIES_ALIVE
  THEN {[g |-> SpawnCall(g, g, "", FALSE), result |-> FALSE]}
  ELSE UNION {
    LET points == currentLevel(g).enemySpawnPoints
        accepted == { i \in 1..Len(points) :
                        CandidateAccepted(g, CandidateRect(enemyType, points[i])) }
    IN IF accepted = {}
       THEN {[g |-> SpawnCall(g, g, enemyType, FALSE), result |-> FALSE]}
       ELSE UNION {
         LET candidate == CandidateRect(enemyType, points[i])
             playerCenterX == g.player.x + g.player.w \div 2
             candidateCenterX == candidate.x + candidate.w \div 2
             facing == IF candidateCenterX > playerCenterX THEN -1 ELSE 1
             enemy == createEnemy(enemyType, candidate.x, candidate.y, facing)
             pushed == [g EXCEPT !.enemies = Append(@, enemy)]
         IN { [g |-> SpawnCall(p, g, enemyType, TRUE), result |-> TRUE]
              : p \in emitEnemySpawnPoof(pushed, getBody(enemy)) }
         : i \in accepted }
    : enemyType \in pickEnemyType }

(* fault: the enemy list is not emptied before the first spawn *)
resetEnemyWave_KeepsEnemies(g) ==
  UNION { { r.g : r \in spawnEnemyIfPossible(
                          [g EXCEPT !.pendingRespawnTimers = << >>,
                                    !.spawnTimerSec = interval]) }
          : interval \in SpawnIntervalDraws }

resetEnemyWave(g) ==
  UNION { { r.g : r \in spawnEnemyIfPossible(
                          [g EXCEPT !.enemies = << >>,
                                    !.pendingRespawnTimers = << >>,
                                    !.spawnTimerSec = interval]) }
          : interval \in SpawnIntervalDraws }

RemoveAt(seq, i) == SubSeq(seq, 1, i - 1) \o SubSeq(seq, i + 1, Len(seq))

(* fault: a respawn whose spawn fails is dropped instead of retried *)
RECURSIVE UpdateRespawnTimers_DropsOnFailure(_, _, _)
UpdateRespawnTimers_DropsOnFailure(g, delta, i) ==
  IF i < 1
  THEN {g}
  ELSE LET g1 == [g EXCEPT !.pendingRespawnTimers[i] = @ - delta]
       IN IF g1.pendingRespawnTimers[i] <= 0
          THEN UNION {
                 UpdateRespawnTimers_DropsOnFailure(
                   [r.g EXCEPT !.pendingRespawnTimers = RemoveAt(@, i)],
                   delta, i - 1)
                 : r \in spawnEnemyIfPossible(g1) }
          ELSE UpdateRespawnTimers_DropsOnFailure(g1, delta, i - 1)

(* the respawn-timer loop, indices i down to 1 *)
RECURSIVE UpdateRespawnTimers(_, _, _)
UpdateRespawnTimers(g, delta, i) ==
  IF i < 1
  THEN {g}
  ELSE LET g1 == [g EXCEPT !.pendingRespawnTimers[i] = @ - delta]
       IN IF g1.pendingRespawnTimers[i] <= 0
          THEN UNION {
                 UpdateRespawnTimers(
                   IF r.result
                   THEN [r.g EXCEPT !.pendingRespawnTimers = RemoveAt(@, i)]
                   ELSE [r.g EXCEPT !.pendingRespawnTimers[i] = ENEMY_RESPAWN_RETRY_SEC],
                   delta, i - 1)
                 : r \in spawnEnemyIfPossible(g1) }
          ELSE UpdateRespawnTimers(g1, delta, i - 1)

updateEnemySpawning(g, delta) ==
  LET g1 == [g EXCEPT !.spawnTimerSec = @ - delta]
      waved == IF g1.spawnTimerSec <= 0
               THEN { [r.g EXCEPT !.spawnTimerSec = interval] :
                        r \in spawnEnemyIfPossible(g1), interval \in SpawnIntervalDraws }
               ELSE {g1}
  IN UNION { UpdateRespawnTimers(w, delta, Len(w.pendingRespawnTimers)) : w \in waved }

----------------------------------------------------------------------------
(* Encounter resolver, src/src/game.ts:782-834.                            *)

isStomp(g, enemyBody, previousPlayerBottom) ==
  LET playerBottom == g.player.y + g.player.h
  IN /\ g.player.vy > 0
     /\ previousPlayerBottom <= enemyBody.y + STOMP_TOLERANCE * PX
     /\ playerBottom >= enemyBody.y

(* game.ts:801-811, the stomp branch for enemy i *)
ResolveStomp(g, i) ==
  LET stompResult == applyStomp(g.enemies[i])
      g1 == Sound([g EXCEPT !.enemies[i] = stompResult.enemy,
                            !.player.vy = -STOMP_BOUNCE_SPEED,
                            !.player.grounded = FALSE,
                            !.lastGroundedTimeMs = NegInfinity,
                            !.ev.stomps = @ + 1,
                            !.ev.stomped = Append(@,
                               [before |-> g.enemies[i],
                                after |-> stompResult.enemy,
                                result |-> stompResult.result])], "stomp")
  IN IF stompResult.result = "killed"
     THEN { [g1 EXCEPT !.enemies = RemoveAt(@, i),
                       !.pendingRespawnTimers = Append(@, delay)]
            : delay \in RespawnDelayDraws }
     ELSE {g1}

(* fault: a hit costs two hearts and the floor at 0 is missing *)
HeartsAfterHit_TwoUnclamped(hearts) == hearts - 2

(* game.ts:818 *)
HeartsAfterHit(hearts) == Max(0, hearts - 1)

(* fault: the game-over test is off by one *)
OutOfHearts_OffByOne(hearts) == hearts <= 1

(* game.ts:828 *)
OutOfHearts(hearts) == hearts <= 0

(* fault: a hit interrupts the dig *)
ResolveHazard_CancelsDig(g, i) ==
  LET enemyBody == getBody(g.enemies[i])
      playerCenter == g.player.x + g.player.w \div 2
      enemyCenter == enemyBody.x + enemyBody.w \div 2
      g1 == Sound([g EXCEPT !.hearts = HeartsAfterHit(g.hearts),
                            !.invincibleTimerSec = PLAYER_IFRAMES_SEC,
                            !.playerState = "normal",
                            !.activeDigSpotIndex = NoSpot,
                            !.player.vx = IF playerCenter < enemyCenter
                                          THEN -Speed(PLAYER_KNOCKBACK_X)
                                          ELSE Speed(PLAYER_KNOCKBACK_X),
                            !.player.vy = -Speed(PLAYER_KNOCKBACK_Y),
                            !.player.grounded = FALSE,
                            !.ev.hazards = @ + 1,
                            !.ev.hitBy = Append(@, g.enemies[i]),
                            !.ev.heartsLost = @ + (g.hearts - HeartsAfterHit(g.hearts))], "hurt")
  IN IF OutOfHearts(g1.hearts)
     THEN [g1 EXCEPT !.gameState = "gameOver",
                     !.calls.onGameOver = @ + 1,
                     !.ev.onGameOver = @ + 1]
     ELSE g1

(* game.ts:818-831, the hazard branch for enemy i *)
ResolveHazard(g, i) ==
  LET enemyBody == getBody(g.enemies[i])
      playerCenter == g.player.x + g.player.w \div 2
      enemyCenter == enemyBody.x + enemyBody.w \div 2
      g1 == Sound([g EXCEPT !.hearts = HeartsAfterHit(g.hearts),
                            !.invincibleTimerSec = PLAYER_IFRAMES_SEC,
                            !.player.vx = IF playerCenter < enemyCenter
                                          THEN -Speed(PLAYER_KNOCKBACK_X)
                                          ELSE Speed(PLAYER_KNOCKBACK_X),
                            !.player.vy = -Speed(PLAYER_KNOCKBACK_Y),
                            !.player.grounded = FALSE,
                            !.ev.hazards = @ + 1,
                            !.ev.hitBy = Append(@, g.enemies[i]),
                            !.ev.heartsLost = @ + (g.hearts - HeartsAfterHit(g.hearts))], "hurt")
  IN IF OutOfHearts(g1.hearts)
     THEN [g1 EXCEPT !.gameState = "gameOver",
                     !.calls.onGameOver = @ + 1,
                     !.ev.onGameOver = @ + 1]
     ELSE g1

(* fault: the two `return` statements of the loop are missing, so the     *)
(* loop goes on to the remaining enemies after a stomp or a hit            *)
RECURSIVE ResolveEncounters_NoReturn(_, _, _)
ResolveEncounters_NoReturn(g, previousPlayerBottom, i) ==
  IF i < 1
  THEN {g}
  ELSE LET enemy == g.enemies[i]
           enemyBody == getBody(enemy)
       IN IF ~isAlive(enemy)
          THEN ResolveEncounters_NoReturn(g, previousPlayerBottom, i - 1)
          ELSE IF ~intersectsWithSkin(g.player, enemyBody, 0)
          THEN ResolveEncounters_NoReturn(g, previousPlayerBottom, i - 1)
          ELSE IF isStomp(g, enemyBody, previousPlayerBottom)
          THEN UNION { ResolveEncounters_NoReturn(s, previousPlayerBottom, i - 1)
                       : s \in ResolveStomp(g, i) }
          ELSE IF g.invincibleTimerSec > 0 \/ ~canDamagePlayer(enemy)
          THEN ResolveEncounters_NoReturn(g, previousPlayerBottom, i - 1)
          ELSE ResolveEncounters_NoReturn(ResolveHazard(g, i), previousPlayerBottom, i - 1)

(* the enemy loop of handlePlayerEnemyCollision, indices i down to 1 *)
RECURSIVE ResolveEncounters(_, _, _)
ResolveEncounters(g, previousPlayerBottom, i) ==
  IF i < 1
  THEN {g}
  ELSE LET enemy == g.enemies[i]
           enemyBody == getBody(enemy)
       IN IF ~isAlive(enemy)
          THEN ResolveEncounters(g, previousPlayerBottom, i - 1)
          ELSE IF ~intersectsWithSkin(g.player, enemyBody, 0)
          THEN ResolveEncounters(g, previousPlayerBottom, i - 1)
          ELSE IF isStomp(g, enemyBody, previousPlayerBottom)
          THEN ResolveStomp(g, i)
          ELSE IF g.invincibleTimerSec > 0 \/ ~canDamagePlayer(enemy)
          THEN ResolveEncounters(g, previousPlayerBottom, i - 1)
          ELSE {ResolveHazard(g, i)}

handlePlayerEnemyCollision(g, previousPlayerBottom) ==
  ResolveEncounters(g, previousPlayerBottom, Len(g.enemies))

----------------------------------------------------------------------------
(* Goal item and exit gate, src/src/game.ts:960-986.                       *)

LevelStats(g) ==
  [ bonesCollected |-> g.bonesCollected,
    heartsRemaining |-> g.hearts,
    timeSec |-> g.elapsedSec,
    levelName |-> currentLevel(g).name ]

(* fault: the gate opens without the golden toy *)
handleGoldenToyAndGate_OpensWithoutToy(g) ==
  LET g1 == IF ~g.goldenToy.collected /\ intersectsWithSkin(g.player, g.goldenToy, 0)
            THEN Sound(Sound([g EXCEPT !.goldenToy.collected = TRUE,
                                       !.hasGoldenToy = TRUE],
                             "goldenToyPickup"), "gateUnlock")
            ELSE g
  IN IF ~intersectsWithSkin(g1.player, g1.exitGate, 0)
     THEN g1
     ELSE Sound([g1 EXCEPT
                   !.gameState = "levelComplete",
                   !.calls.onLevelComplete = @ + 1,
                   !.calls.stats = Append(@, LevelStats(g1) @@ [hasNextLevel |-> hasNextLevel(g1)]),
                   !.ev.onLevelComplete = @ + 1], "levelComplete")

(* fault: the locked gate raises no hint *)
handleGoldenToyAndGate_NoHint(g) ==
  LET g1 == IF ~g.goldenToy.collected /\ intersectsWithSkin(g.player, g.goldenToy, 0)
            THEN Sound(Sound([g EXCEPT !.goldenToy.collected = TRUE,
                                       !.hasGoldenToy = TRUE],
                             "goldenToyPickup"), "gateUnlock")
            ELSE g
  IN IF ~intersectsWithSkin(g1.player, g1.exitGate, 0) \/ ~g1.hasGoldenToy
     THEN g1
     ELSE Sound([g1 EXCEPT
                   !.gameState = "levelComplete",
                   !.calls.onLevelComplete = @ + 1,
                   !.calls.stats = Append(@, LevelStats(g1) @@ [hasNextLevel |-> hasNextLevel(g1)]),
                   !.ev.onLevelComplete = @ + 1], "levelComplete")

handleGoldenToyAndGate(g) ==
  LET g1 == IF ~g.goldenToy.collected /\ intersectsWithSkin(g.player, g.goldenToy, 0)
            THEN Sound(Sound([g EXCEPT !.goldenToy.collected = TRUE,
                                       !.hasGoldenToy = TRUE],
                             "goldenToyPickup"), "gateUnlock")
            ELSE g
  IN IF ~intersectsWithSkin(g1.player, g1.exitGate, 0)
     THEN g1
     ELSE IF ~g1.hasGoldenToy
     THEN [g1 EXCEPT !.gateHintTimerSec = Max(@, GATE_LOCKED_HINT_SEC)]
     ELSE Sound([g1 EXCEPT
                   !.gameState = "levelComplete",
                   !.calls.onLevelComplete = @ + 1,
                   !.calls.stats = Append(@, LevelStats(g1) @@ [hasNextLevel |-> hasNextLevel(g1)]),
                   !.ev.onLevelComplete = @ + 1], "levelComplete")

----------------------------------------------------------------------------
(* Dig-spot generation, src/src/game.ts:1155-1205.  The layout is a        *)
(* function of the level alone (seed, platforms, spawn points); the table  *)
(* holds the spots the generator yields for the three seeds, in order.     *)

DigSpot(x, hasBone) ==
  [ x |-> x * PX, y |-> (164 - 6) * PX, w |-> 16 * PX, h |-> 6 * PX,
    dug |-> FALSE, hasBone |-> hasBone ]

generateDigSpots(levelSeed) ==
  CASE levelSeed = "wild-garden-seed" ->
         << DigSpot(566, TRUE), DigSpot(1260, TRUE), DigSpot(1572, FALSE),
            DigSpot(294, FALSE), DigSpot(891, TRUE), DigSpot(1440, TRUE) >>
    [] levelSeed = "courtyard-seed" ->
         << DigSpot(1415, TRUE), DigSpot(535, FALSE), DigSpot(302, FALSE),
            DigSpot(1645, TRUE), DigSpot(2105, TRUE), DigSpot(1287, TRUE) >>
    [] levelSeed = "snow-garden-seed" ->
         << DigSpot(1000, FALSE), DigSpot(460, TRUE), DigSpot(1812, TRUE),
            DigSpot(1614, TRUE), DigSpot(1282, FALSE), DigSpot(1036, TRUE) >>

----------------------------------------------------------------------------
(* Session: construction, level load, public calls,                        *)
(* src/src/game.ts:389-586.                                                *)

(* the field initialisers of class Game, game.ts:389-442 *)
GameFields ==
  [ enemies |-> << >>,
    lastTick |-> 0,
    nowMs |-> 0,
    isRunning |-> FALSE,
    lastGroundedTimeMs |-> NegInfinity,
    lastJumpPressedTimeMs |-> NegInfinity,
    previousJumpHeld |-> FALSE,
    hearts |-> MAX_HEARTS,
    bonesCollected |-> 0,
    invincibleTimerSec |-> 0,
    gameState |-> "playing",
    elapsedSec |-> 0,
    levelIndex |-> 0,
    levelTitleTimerSec |-> 0,
    camera |-> [x |-> 0, y |-> 0],
    playerState |-> "normal",
    digTimerSec |-> 0,
    activeDigSpotIndex |-> NoSpot,
    digSpots |-> << >>,
    bones |-> << >>,
    digParticles |-> << >>,
    digEmitTimerSec |-> 0,
    goldenToy |-> [x |-> 0, y |-> 0, w |-> TOY_SIZE.w, h |-> TOY_SIZE.h, collected |-> FALSE],
    exitGate |-> [x |-> 0, y |-> 0, w |-> EXIT_GATE_SIZE.w, h |-> EXIT_GATE_SIZE.h],
    hasGoldenToy |-> FALSE,
    gateHintTimerSec |-> 0,
    spawnTimerSec |-> 0,
    pendingRespawnTimers |-> << >>,
    player |-> [ x |-> PLAYER_START_X * PX, y |-> PLAYER_START_Y * PX,
                 w |-> PLAYER_SIZE * PX, h |-> PLAYER_SIZE * PX,
                 vx |-> 0, vy |-> 0, facing |-> 1, grounded |-> FALSE ],
    input |-> newInput,
    calls |-> NoCalls,
    ev |-> NoEvents ]

loadLevel(g, index) ==
  LET g1 == [g EXCEPT
               !.levelIndex = clamp(index, 0, Len(LEVELS) - 1),
               !.hearts = MAX_HEARTS,
               !.bonesCollected = 0,
               !.invincibleTimerSec = 0,
               !.gameState = "playing",
               !.lastGroundedTimeMs = NegInfinity,
               !.lastJumpPressedTimeMs = NegInfinity,
               !.previousJumpHeld = FALSE,
               !.elapsedSec = 0,
               !.playerState = "normal",
               !.digTimerSec = 0,
               !.activeDigSpotIndex = NoSpot,
               !.digEmitTimerSec = 0,
               !.player.x = PLAYER_START_X * PX,
               !.player.y = PLAYER_START_Y * PX,
               !.player.vx = 0,
               !.player.vy = 0,
               !.player.facing = 1,
               !.player.grounded = FALSE,
               !.calls = NoCalls]
  IN { [g2 EXCEPT
          !.digSpots = generateDigSpots(currentLevel(g2).digSeed),
          !.bones = << >>,
          !.digParticles = << >>,
          !.goldenToy = [x |-> currentLevel(g2).goldenToyPosition.x,
                         y |-> currentLevel(g2).goldenToyPosition.y,
                         w |-> TOY_SIZE.w, h |-> TOY_SIZE.h, collected |-> FALSE],
          !.exitGate = [x |-> currentLevel(g2).exitGatePosition.x,
                        y |-> currentLevel(g2).exitGatePosition.y,
                        w |-> EXIT_GATE_SIZE.w, h |-> EXIT_GATE_SIZE.h],
          !.hasGoldenToy = FALSE,
          !.gateHintTimerSec = 0,
          !.levelTitleTimerSec = LEVEL_TITLE_SEC,
          !.camera = [x |-> 0, y |-> 0],
          !.ev = NoEvents]
       : g2 \in resetEnemyWave(g1) }

(* new Game(canvas, input, callbacks), game.ts:444-474 *)
newGame == loadLevel(GameFields, 0)

(* fault: start() requests an animation frame whether running or not *)
startRequestsFrame_Always(g) == TRUE

(* start() gets past its guard and calls requestAnimationFrame *)
startRequestsFrame(g) == ~g.isRunning

(* start(), with performance.now() = now *)
start(g, now) ==
  IF g.isRunning THEN g
  ELSE [g EXCEPT !.isRunning = TRUE, !.lastTick = now]

restart(g) == loadLevel(g, g.levelIndex)

restartFromFirstLevel(g) == loadLevel(g, 0)

(* fault: past the last level nextLevel() loads the last level again *)
nextLevel_ReloadsLast(g) ==
  { [g |-> l, result |-> TRUE] : l \in loadLevel(g, g.levelIndex + 1) }

nextLevel(g) ==
  IF g.levelIndex + 1 >= Len(LEVELS)
  THEN { [ g |-> [g EXCEPT !.gameState = "demoComplete",
                           !.calls.onDemoComplete = @ + 1,
                           !.calls.stats = Append(@, LevelStats(g))],
           result |-> FALSE ] }
  ELSE { [g |-> l, result |-> TRUE] : l \in loadLevel(g, g.levelIndex + 1) }

----------------------------------------------------------------------------
(* The frame: update() and loop(), src/src/game.ts:588-707.                *)

(* fault: the invincibility timer runs at twice the speed *)
UpdateTimers_ShortWindow(g, delta) ==
  [g EXCEPT !.elapsedSec = @ + delta,
            !.invincibleTimerSec = IF @ > 0 THEN Max(0, @ - 2 * delta) ELSE @,
            !.gateHintTimerSec = IF @ > 0 THEN Max(0, @ - delta) ELSE @,
            !.levelTitleTimerSec = IF @ > 0 THEN Max(0, @ - delta) ELSE @]

(* game.ts:612-623 *)
UpdateTimers(g, delta) ==
  [g EXCEPT !.elapsedSec = @ + delta,
            !.invincibleTimerSec = IF @ > 0 THEN Max(0, @ - delta) ELSE @,
            !.gateHintTimerSec = IF @ > 0 THEN Max(0, @ - delta) ELSE @,
            !.levelTitleTimerSec = IF @ > 0 THEN Max(0, @ - delta) ELSE @]

(* game.ts:625-633 *)
UpdateDigStart(g) ==
  IF g.playerState # "normal"
  THEN g
  ELSE LET c == consumeDigPressed(g.input)
           g1 == [g EXCEPT !.input = c.input, !.ev.consumedDig = c.result]
           digSpotIndex == findDigSpotForPlayer(g1)
       IN IF c.result /\ g1.player.grounded /\ digSpotIndex # NoSpot
          THEN [g1 EXCEPT !.playerState = "digging",
                          !.digTimerSec = DIG_DURATION_SEC,
                          !.activeDigSpotIndex = digSpotIndex,
                          !.player.vx = 0]
          ELSE g1

(* game.ts:658 *)
jumpBuffered(g) == g.nowMs - g.lastJumpPressedTimeMs <= JUMP_BUFFER_MS

(* fault: no coyote time, a jump needs ground contact *)
inCoyoteWindow_GroundedOnly(g) == g.player.grounded

(* game.ts:659 *)
inCoyoteWindow(g) ==
  g.player.grounded \/ g.nowMs - g.lastGroundedTimeMs <= COYOTE_TIME_MS

(* fault: the jump leaves both time stamps as they are *)
FireJump_KeepsStamps(g) ==
  Sound([g EXCEPT !.player.vy = -Speed(JUMP_SPEED),
                  !.player.grounded = FALSE,
                  !.ev.jumped = TRUE], "jump")

(* game.ts:661-665 *)
FireJump(g) ==
  Sound([g EXCEPT !.player.vy = -Speed(JUMP_SPEED),
                  !.player.grounded = FALSE,
                  !.lastJumpPressedTimeMs = NegInfinity,
                  !.lastGroundedTimeMs = NegInfinity,
                  !.ev.jumped = TRUE], "jump")

(* game.ts:639-670, the branch playerState = normal *)
UpdateNormal(g, delta) ==
  LET state == g.input.state
      inputDirection == Number(state.right) - Number(state.left)
      c == consumeJumpPressed(g.input)
      g1 == [g EXCEPT !.input = c.input,
                      !.ev.consumedJump = c.result,
                      !.lastJumpPressedTimeMs = IF c.result THEN g.nowMs ELSE @]
      g2 == [g1 EXCEPT !.player.facing = IF inputDirection < 0 THEN -1
                                         ELSE IF inputDirection > 0 THEN 1 ELSE @]
      accel == IF g2.player.grounded THEN ACCEL ELSE AIR_ACCEL
      vx1 == IF inputDirection # 0
             THEN g2.player.vx + inputDirection * Accel(accel, delta)
             ELSE IF g2.player.grounded
             THEN moveTowards(g2.player.vx, 0, Accel(GROUND_FRICTION, delta))
             ELSE g2.player.vx
      g3 == [g2 EXCEPT !.player.vx = clamp(vx1, -Speed(MAX_SPEED), Speed(MAX_SPEED))]
      g4 == IF jumpBuffered(g3) /\ inCoyoteWindow(g3) THEN FireJump(g3) ELSE g3
  IN IF g4.previousJumpHeld /\ ~state.jumpHeld /\ g4.player.vy < 0
     THEN [g4 EXCEPT !.player.vy = JumpCut(@)]
     ELSE g4

(* game.ts:671-681, the branch playerState = digging *)
UpdateDigging(g, delta) ==
  LET g1 == IF g.player.grounded
            THEN [g EXCEPT !.player.vx = moveTowards(@, 0, Accel(GROUND_FRICTION, delta))]
            ELSE g
  IN { LET g3 == [g2 EXCEPT !.digTimerSec = @ - delta]
       IN IF g3.digTimerSec <= 0 THEN finishDig(g3) ELSE g3
       : g2 \in emitDigParticlesWhileDigging(g1, delta) }

(* game.ts:683-684 *)
ApplyGravity(g, delta) ==
  [g EXCEPT !.player.vy = Min(@ + Accel(GRAVITY, delta), Speed(TERMINAL_VELOCITY))]

(* game.ts:689-692 *)
UpdateGrounded(g) ==
  IF checkGrounded(g)
  THEN [g EXCEPT !.player.grounded = TRUE,
                 !.lastGroundedTimeMs = g.nowMs,
                 !.ev.grounded = TRUE, !.ev.landed = TRUE]
  ELSE [g EXCEPT !.player.grounded = FALSE]

(* game.ts:683-692 *)
UpdatePlayerPhysics(g, delta, state) ==
  UpdateGrounded(
    moveVertical(
      clampPlayerToWorldBounds(
        moveHorizontal(ApplyGravity(g, delta), delta, state)),
      delta))

(* game.ts:695-697 *)
UpdateEnemies(g, delta) ==
  [g EXCEPT !.enemies =
     [i \in 1..Len(g.enemies) |->
        enemyUpdate(g.enemies[i], delta, currentLevel(g).platforms,
                    GRAVITY, TERMINAL_VELOCITY, COLLISION_SKIN)]]

(* game.ts:699-706 *)
UpdateWorld(g, delta, state) ==
  LET g1 == updateBonesAndParticles(g, delta)
      g2 == handleGoldenToyAndGate(g1)
      g3 == updateCamera(g2)
  IN [g3 EXCEPT !.previousJumpHeld = state.jumpHeld]

(* game.ts:635-637 *)
UpdateStart(g) ==
  IF g.player.grounded
  THEN [g EXCEPT !.lastGroundedTimeMs = g.nowMs, !.ev.grounded = TRUE]
  ELSE g

(* game.ts:639-681 *)
UpdateAction(g, delta) ==
  IF g.playerState = "normal"
  THEN {UpdateNormal(g, delta)}
  ELSE UpdateDigging(g, delta)

(* fault: the test of gameState at the top of update is missing *)
update_AnyState(g, delta) ==
  { UpdateWorld(met, delta, g.input.state) :
    met \in UNION {
      handlePlayerEnemyCollision(stepped, g.player.y + g.player.h) :
      stepped \in {
        UpdateEnemies(spawned, delta) :
        spawned \in UNION {
          updateEnemySpawning(moved, delta) :
          moved \in {
            UpdatePlayerPhysics(acted, delta, g.input.state) :
            acted \in UpdateAction(
                        UpdateStart(UpdateDigStart(UpdateTimers(g, delta))),
                        delta) } } } } }

update(g, delta) ==
  IF g.gameState # "playing"
  THEN {g}
  ELSE
    { UpdateWorld(met, delta, g.input.state) :
      met \in UNION {
        handlePlayerEnemyCollision(stepped, g.player.y + g.player.h) :
        stepped \in {
          UpdateEnemies(spawned, delta) :
          spawned \in UNION {
            updateEnemySpawning(moved, delta) :
            moved \in {
              UpdatePlayerPhysics(acted, delta, g.input.state) :
              acted \in UpdateAction(
                          UpdateStart(UpdateDigStart(UpdateTimers(g, delta))),
                          delta) } } } } }

(* game.ts:593 *)
MAX_DELTA == SEC \div 30

(* fault: the Math.min is missing *)
FrameDelta_Unclamped(timestamp, lastTick) == (timestamp - lastTick) * MS

FrameDelta(timestamp, lastTick) == Min((timestamp - lastTick) * MS, MAX_DELTA)

(* loop(timestamp): update, render (no state), input.endFrame; the next    *)
(* frame is requested by the caller of this operator.                      *)
(* game.ts:593-595 *)
BeginFrame(g, timestamp) ==
  [g EXCEPT !.lastTick = timestamp, !.nowMs = timestamp,
            !.ev = [NoEvents EXCEPT !.delta = FrameDelta(timestamp, g.lastTick)]]

loop(g, timestamp) ==
  IF ~g.isRunning
  THEN {g}
  ELSE { [u EXCEPT !.input = endFrame(u.input)] :
         u \in update(BeginFrame(g, timestamp), FrameDelta(timestamp, g.lastTick)) }

----------------------------------------------------------------------------
(* The seeded generator, src/src/game.ts:1753-1789.  A 32-bit word is the  *)
(* pair of its 16-bit halves, so that no intermediate value exceeds the    *)
(* integer range; Math.imul, ^, |, >>> and the wrap of + are computed on   *)
(* the halves.                                                             *)

Word(hi, lo) == [hi |-> hi, lo |-> lo]

RECURSIVE BitXor(_, _, _)
BitXor(x, y, bit) ==
  IF bit < 0 THEN 0
  ELSE (((x \div 2^bit) + (y \div 2^bit)) % 2) * 2^bit + BitXor(x, y, bit - 1)

RECURSIVE BitOr(_, _, _)
BitOr(x, y, bit) ==
  IF bit < 0 THEN 0
  ELSE (IF (x \div 2^bit) % 2 = 1 \/ (y \div 2^bit) % 2 = 1 THEN 2^bit ELSE 0)
         + BitOr(x, y, bit - 1)

(* u ^ v *)
Xor32(u, v) == Word(BitXor(u.hi, v.hi, 15), BitXor(u.lo, v.lo, 15))

(* u | k for a constant k below 65536 *)
Or32(u, k) == Word(u.hi, BitOr(u.lo, k, 15))

(* (u + v) | 0 *)
Add32(u, v) ==
  Word((u.hi + v.hi + (u.lo + v.lo) \div 65536) % 65536, (u.lo + v.lo) % 65536)

(* u >>> n, 0 < n < 16 *)
Shr32(u, n) ==
  Word(u.hi \div 2^n, (u.lo \div 2^n + (u.hi % 2^n) * 2^(16 - n)) % 65536)

(* the low 16 bits of the product of two 16-bit numbers *)
MulLow16(x, y) ==
  ((x % 256) * (y % 256)
     + (((x \div 256) * (y % 256) + (x % 256) * (y \div 256)) % 256) * 256) % 65536

(* the bits 16.. of the product of two 16-bit numbers *)
MulHigh16(x, y) ==
  (x \div 256) * (y \div 256)
    + ((x \div 256) * (y % 256) + (x % 256) * (y \div 256)) \div 256
    + ((x % 256) * (y % 256)
         + (((x \div 256) * (y % 256) + (x % 256) * (y \div 256)) % 256) * 256) \div 65536

(* Math.imul(u, v) *)
imul(u, v) ==
  Word((MulHigh16(u.lo, v.lo) + MulLow16(u.hi, v.lo) + MulLow16(u.lo, v.hi)) % 65536,
       MulLow16(u.lo, v.lo))

(* seed.charCodeAt(i) for the seed strings of the levels *)
SeedChars(seed) ==
  CASE seed = "wild-garden-seed" ->
         << 119, 105, 108, 100, 45, 103, 97, 114, 100, 101, 110, 45, 115, 101, 101, 100 >>
    [] seed = "courtyard-seed" ->
         << 99, 111, 117, 114, 116, 121, 97, 114, 100, 45, 115, 101, 101, 100 >>
    [] seed = "snow-garden-seed" ->
         << 115, 110, 111, 119, 45, 103, 97, 114, 100, 101, 110, 45, 115, 101, 101, 100 >>

(* game.ts:1754-1758: h = 2166136261, then per character h ^= code,        *)
(* h = Math.imul(h, 16777619); the result is the generator's state a.      *)
(* The halves of a word are never negative: the test on h.hi only makes    *)
(* TLC evaluate h before the next character is hashed.                     *)
RECURSIVE HashSeed(_, _, _)
HashSeed(h, codes, i) ==
  IF i > Len(codes) \/ h.hi < 0 THEN h
  ELSE HashSeed(imul(Xor32(h, Word(0, codes[i])), Word(256, 403)), codes, i + 1)

createSeededRng(seed) == HashSeed(Word(33052, 40389), SeedChars(seed), 1)

(* game.ts:1784-1787, from t = (a += 0x6d2b79f5) on *)
Mulberry32Mix(t) == imul(Xor32(t, Shr32(t, 15)), Or32(t, 1))
Mulberry32Fold(t) == Xor32(t, Add32(t, imul(Xor32(t, Shr32(t, 7)), Or32(t, 61))))
Mulberry32Out(t) == Xor32(t, Shr32(t, 14))

(* one call of the generator in state a: the new state and the number      *)
(* returned, as the 32-bit numerator of value / 4294967296                 *)
mulberry32_MathRandom(a) ==
  { [a |-> a, value |-> Word(hi, 0)] : hi \in {0, 30000, 60000} }

mulberry32(a) ==
  { [ a |-> Add32(a, Word(27947, 31221)),
      value |-> Mulberry32Out(Mulberry32Fold(Mulberry32Mix(Add32(a, Word(27947, 31221))))) ] }

(* Math.floor(n * (value / 4294967296)) for an integer 0 <= n < 32768 *)
FloorScaled(n, value) == (n * value.hi + (n * value.lo) \div 65536) \div 65536

(* value / 4294967296 < 0.7: the double 0.7 times 2^32 is 3006477107.2 *)
BelowBoneChance(value) ==
  value.hi < 45875 \/ (value.hi = 45875 /\ value.lo <= 13107)

----------------------------------------------------------------------------
(* generateDigSpots as the code runs it, src/src/game.ts:1155-1205: the    *)
(* draw of the count, then one step per attempt of the while loop.  this   *)
(* is the Game the method runs on; a run is the local state of the call.   *)

(* game.ts:1743-1751 *)
RECURSIVE MainGround(_, _, _)
MainGround(platforms, best, i) ==
  IF i > Len(platforms) THEN best
  ELSE MainGround(platforms, IF platforms[i].y > best.y THEN platforms[i] ELSE best, i + 1)

getMainGroundPlatform(platforms) == MainGround(platforms, platforms[1], 1)

(* game.ts:1725-1741 *)
isValidDigSpot(spot, platforms) ==
  /\ ~\E i \in 1..Len(platforms) :
        platforms[i].y < 160 * PX /\ intersectsWithSkin(spot, platforms[i], 0)
  /\ \E i \in 1..Len(platforms) :
        /\ platforms[i].y >= 160 * PX
        /\ intersectsWithSkin([x |-> spot.x + 2 * PX, y |-> spot.y + spot.h,
                               w |-> Max(1 * PX, spot.w - 4 * PX), h |-> 3 * PX],
                              platforms[i], 0)

(* game.ts:1160-1164, in pixels *)
DigMinX(level) ==
  Max(getMainGroundPlatform(level.platforms).x \div PX + (level.width \div PX) \div 10,
      getMainGroundPlatform(level.platforms).x \div PX + DIG_MIN_DISTANCE_FROM_START)

DigMaxX(level) ==
  (getMainGroundPlatform(level.platforms).x + getMainGroundPlatform(level.platforms).w) \div PX
    - DIG_SPOT_WIDTH - 2

(* game.ts:1156-1167 *)
DigSpotsBegin(this, levelSeed) ==
  { [ rng |-> d.a,
      count |-> DIG_SPOT_MIN_COUNT
                  + FloorScaled(DIG_SPOT_MAX_COUNT - DIG_SPOT_MIN_COUNT + 1, d.value),
      spots |-> << >>,
      attempts |-> 0,
      draws |-> << d.value >> ]
    : d \in mulberry32(createSeededRng(levelSeed)) }

(* fault: the loop runs until the list is full *)
DigSpotsDone_NoBudget(run) == ~(Len(run.spots) < run.count)

DigSpotsDone(run) == ~(Len(run.spots) < run.count /\ run.attempts < DIG_MAX_ATTEMPTS)

(* fault: only the other spots keep a position away *)
DigSpotTooClose_SpotsOnly(level, spots, centerX) ==
  \E i \in 1..Len(spots) :
    Abs(centerX - (spots[i].x + spots[i].w \div 2)) < DIG_MIN_SPOT_SPACING * PX

(* game.ts:1175-1183 *)
DigSpotTooClose(level, spots, centerX) ==
  \/ \E i \in 1..Len(level.enemySpawnPoints) :
        Abs(centerX - level.enemySpawnPoints[i].x) < DIG_MIN_DISTANCE_FROM_ENEMY * PX
  \/ \E i \in 1..Len(spots) :
        Abs(centerX - (spots[i].x + spots[i].w \div 2)) < DIG_MIN_SPOT_SPACING * PX

(* game.ts:1185-1201: the candidate at x with the bone flag drawn by d *)
DigSpotCandidate(level, run, x, d) ==
  [ run EXCEPT
      !.rng = d.a,
      !.draws = Append(@, d.value),
      !.spots = IF isValidDigSpot(
                     [ x |-> x * PX,
                       y |-> getMainGroundPlatform(level.platforms).y - DIG_SPOT_HEIGHT * PX,
                       w |-> DIG_SPOT_WIDTH * PX, h |-> DIG_SPOT_HEIGHT * PX ],
                     level.platforms)
                THEN Append(@, [ x |-> x * PX,
                                 y |-> getMainGroundPlatform(level.platforms).y - DIG_SPOT_HEIGHT * PX,
                                 w |-> DIG_SPOT_WIDTH * PX, h |-> DIG_SPOT_HEIGHT * PX,
                                 dug |-> FALSE, hasBone |-> BelowBoneChance(d.value) ])
                ELSE @ ]

(* game.ts:1171-1201 with the position x drawn *)
DigSpotAt(level, run, x) ==
  IF DigSpotTooClose(level, run.spots, x * PX + (DIG_SPOT_WIDTH * PX) \div 2)
  THEN { run }
  ELSE { DigSpotCandidate(level, run, x, d) : d \in mulberry32(run.rng) }

(* one pass of the while loop in a level, game.ts:1169-1202 *)
DigSpotsPass(level, run) ==
  UNION { DigSpotAt(level,
                    [run EXCEPT !.attempts = @ + 1, !.rng = d.a, !.draws = Append(@, d.value)],
                    DigMinX(level) + FloorScaled(DigMaxX(level) - DigMinX(level), d.value))
          : d \in mulberry32(run.rng) }

(* one pass of the while loop, game.ts:1169-1202 *)
DigSpotsAttempt(this, run) == DigSpotsPass(currentLevel(this), run)


----------------------------------------------------------------------------
(* The host: the browser's clock, its frame callbacks, the keys and        *)
(* buttons the user holds, and the calls the page makes on the Game.       *)

VARIABLES
  game,   \* the Game object, with the Input object it holds (game.input)
  clock,  \* the host's time stamp of the latest frame or start() call, ms
  raf,    \* number of frame callbacks requested and not yet run
  held,   \* the keys and touch buttons physically held down
  obs     \* observers of the run (counters and facts about its history)

vars == << game, clock, raf, held, obs >>

MaxFrames == 4
MaxCalls == 1
MaxInputEvents == 4
MaxConsumeCalls == 2
MaxStomps == 3
MaxDigFrames == 12
MaxMoveFrames == 6
MaxWaveFrames == 2
MaxPoolFrames == 3
MaxHitFrames == 40
MaxRunFrames == 18
MaxRunEvents == 2
MaxPatrolFrames == 14
MaxPatrolStomps == 1
MaxQueueFrames == 3
MaxLoopFrames == 3
MaxLoopEvents == 2
MaxStarts == 3

(* time stamp of the page load *)
StartMs == 1000 * 10

(* obs.groundedFrameMs: time stamp of the last frame in which the player   *)
(* was grounded; obs.bounced: a jump or a stomp bounce has fired since;    *)
(* obs.airPress: whether the last frame began with the player airborne in  *)
(* the normal state and had a jump press buffered, and if so how long      *)
(* after the last grounded frame it came and whether a jump or bounce lay  *)
(* between;                                                                *)
(* obs.jumpCredit: jump presses consumed and not yet spent on a jump;      *)
(* obs.edges: pressed edges raised by keydown events of a key since it     *)
(* went down; obs.consumed / obs.tries: consume calls of the current frame *)
(* that returned true / that were made; obs.stomped: the applyStomp calls  *)
(* made directly on enemies, in order; obs.before: the bones, the bone     *)
(* counter and the gate hint timer as they were when the last frame began, *)
(* and whether that frame's update() got past its first test;             *)
(* obs.nextLevelCall: if the last call of the page was nextLevel(), the    *)
(* game before the call and the value returned; obs.outcomes: the dig      *)
(* spots for which a dig produced its bone or puff, in order, since the    *)
(* run began; obs.losses: elapsedSec at the end of each update in which a  *)
(* heart was lost, in order, since the level was loaded or the run began;  *)
(* obs.dig: the spot targeted by the dig under way or completed in the     *)
(* last frame, and the deltas of the updates of that dig added up.         *)
NoObs ==
  [ frames |-> 0, calls |-> 0, events |-> 0,
    op |-> "init", gap |-> 0,
    groundedFrameMs |-> NegInfinity, bounced |-> FALSE,
    jumpCredit |-> 0,
    edges |-> [code \in KeyCodes |-> 0],
    consumed |-> [jump |-> 0, dig |-> 0],
    tries |-> [jump |-> 0, dig |-> 0],
    airPress |-> [case |-> FALSE, sinceGroundedMs |-> 0, bounced |-> FALSE],
    stomped |-> << >>,
    before |-> [bones |-> << >>, bonesCollected |-> 0,
                gateHintTimerSec |-> 0, updating |-> FALSE,
                gameState |-> "none", dug |-> << >>, digParticles |-> << >>,
                still |-> << >>, hearts |-> 0, invincibleTimerSec |-> 0,
                playerState |-> "none", x |-> 0],
    nextLevelCall |-> << >>,
    outcomes |-> << >>,
    losses |-> << >>,
    dig |-> [spot |-> NoSpot, delta |-> 0],
    patrol |-> << >>,
    starts |-> 0,
    pressed |-> [jump |-> FALSE, dig |-> FALSE] ]

(* the object without what loop() itself writes around update(): the two   *)
(* time stamps, the input edges cleared by endFrame, the frame's events    *)
Still(g) ==
  [g EXCEPT !.lastTick = 0, !.nowMs = 0, !.input = endFrame(@), !.ev = NoEvents]

Snapshot(g) ==
  [ bones |-> g.bones,
    bonesCollected |-> g.bonesCollected,
    gateHintTimerSec |-> g.gateHintTimerSec,
    updating |-> g.isRunning /\ g.gameState = "playing",
    gameState |-> g.gameState,
    dug |-> [i \in 1..Len(g.digSpots) |-> g.digSpots[i].dug],
    digParticles |-> g.digParticles,
    still |-> IF g.gameState = "playing" THEN << >> ELSE Still(g),
    hearts |-> g.hearts,
    invincibleTimerSec |-> g.invincibleTimerSec,
    playerState |-> g.playerState,
    x |-> g.player.x,
    spawnTimerSec |-> g.spawnTimerSec,
    pendingRespawnTimers |-> g.pendingRespawnTimers,
    enemies |-> Len(g.enemies),
    elapsedSec |-> g.elapsedSec,
    levelTitleTimerSec |-> g.levelTitleTimerSec ]

(* the observers at the start of a run that begins in state g *)
ObsOf(g) ==
  [NoObs EXCEPT !.groundedFrameMs = g.lastGroundedTimeMs, !.before = Snapshot(g),
                !.dig = IF g.playerState = "digging"
                        THEN [spot |-> g.activeDigSpotIndex,
                              delta |-> DIG_DURATION_SEC - g.digTimerSec]
                        ELSE @]

(* --- states of a game in progress, used to start a run in mid-level ---- *)

(* the resting height of a body of height h on a platform with top edge y *)
RestingY(top, h) == top - h + COLLISION_SKIN

GroundY(levelIndex) == LEVELS[levelIndex + 1].platforms[1].y

(* an enemy that has finished its spawn animation and patrols the ground *)
Patrolling(levelIndex, type, x, facing) ==
  [ createEnemy(type, x * PX, RestingY(GroundY(levelIndex), ENEMY_STATS[type].height), facing)
    EXCEPT !.grounded = TRUE, !.spawnTimerSec = 0 ]

(* level levelIndex some seconds into play, frame loop running *)
InPlay(levelIndex, now, enemies) ==
  LET loaded == CHOOSE g \in loadLevel(GameFields, levelIndex) : TRUE
  IN [loaded EXCEPT
        !.isRunning = TRUE,
        !.lastTick = now,
        !.nowMs = now,
        !.elapsedSec = 20 * SEC,
        !.levelTitleTimerSec = 0,
        !.spawnTimerSec = 4 * SEC,
        !.enemies = enemies]

(* the camera where the last frame left it for the player's position *)
Framed(g) ==
  LET level == LEVELS[g.levelIndex + 1]
      x == g.player.x - CAMERA_PLAYER_SCREEN_X * PX
      maxX == level.width - INTERNAL_WIDTH * PX
  IN [g EXCEPT !.camera.x = ((IF x < 0 THEN 0 ELSE IF x > maxX THEN maxX ELSE x) \div PX) * PX]

(* the player standing on the platform with top edge `top` *)
Standing(g, x, top, vx) ==
  Framed(
    [g EXCEPT !.player.x = x * PX,
              !.player.y = RestingY(top, g.player.h),
              !.player.vx = Speed(vx),
              !.player.vy = 0,
              !.player.grounded = TRUE,
              !.lastGroundedTimeMs = g.nowMs])

(* the player in the air, falling *)
Falling(g, x, y, vy) ==
  Framed(
    [g EXCEPT !.player.x = x * PX,
              !.player.y = y * PX,
              !.player.vx = 0,
              !.player.vy = Speed(vy),
              !.player.grounded = FALSE])

(* of the outcomes of a frame that the random draws allow, one with the    *)
(* most particles pushed                                                   *)
Dustiest(outcomes) ==
  CHOOSE u \in outcomes : \A v \in outcomes : Len(v.ev.pushed) <= Len(u.ev.pushed)

(* the game n frames later, frames 1/30 s apart, no input event between.   *)
(* (now ranges over the one game g, so that each frame is computed once.)  *)
RECURSIVE FastForward(_, _)
FastForward(g, n) ==
  CHOOSE later \in
    { IF n = 0 \/ ~now.isRunning
      THEN now
      ELSE FastForward(Dustiest(loop(now, now.lastTick + 34)), n - 1)
      : now \in {g} } : TRUE

KeyHeld(g, code) == [g EXCEPT !.input = keydown(g.input, code)]
KeyReleased(g, code) == [g EXCEPT !.input = keyup(g.input, code)]

Holding(g, control) == [g EXCEPT !.input.state[control] = TRUE]

WithToy(g, has) ==
  IF has THEN [g EXCEPT !.hasGoldenToy = TRUE, !.goldenToy.collected = TRUE] ELSE g

WithHearts(g, hearts) == [g EXCEPT !.hearts = hearts]

(* steps of a scripted play: a key goes down, a key goes up, frames pass *)
Press(code) == [kind |-> "keydown", code |-> code, n |-> 0]
Release(code) == [kind |-> "keyup", code |-> code, n |-> 0]
Frames(n) == [kind |-> "frames", code |-> "", n |-> n]

(* the game after the steps of a script, in order *)
RECURSIVE Replay(_, _)
Replay(g, script) ==
  IF script = << >>
  THEN g
  ELSE Replay(
         CASE Head(script).kind = "keydown" -> KeyHeld(g, Head(script).code)
           [] Head(script).kind = "keyup" -> KeyReleased(g, Head(script).code)
           [] OTHER -> FastForward(g, Head(script).n),
         Tail(script))

(* a game in progress described by a setup: the level, its enemies, the   *)
(* player standing on a platform top y (vy = 0) or falling from height y,  *)
(* the golden toy, the hearts, and the play from there on                  *)
Placed(g, setup) ==
  IF setup.vy = 0
  THEN Standing(g, setup.x, setup.y, 0)
  ELSE Falling(g, setup.x, setup.y, setup.vy)

Scene(setup) ==
  Replay(
    WithHearts(
      WithToy(Placed(InPlay(setup.levelIndex, StartMs, setup.enemies), setup), setup.toy),
      setup.hearts),
    setup.script)

(* Level 0, in front of the exit gate, walking right, a rat coming the     *)
(* other way (or still far off).                                           *)
GateScenes ==
  { [ levelIndex |-> 0, enemies |-> << Patrolling(0, "rat", ratX, -1) >>,
      x |-> 1664, y |-> GroundY(0), vy |-> 0, toy |-> toy, hearts |-> hearts,
      script |-> << Press("ArrowRight") >> ]
    : toy \in BOOLEAN, hearts \in {1, MAX_HEARTS}, ratX \in {1684, 1760} }

(* Level 0, open ground: the player drops onto a tank and a rat that stand *)
(* side by side, or stands between two enemies that close in.              *)
EnemyScenes ==
  { [ levelIndex |-> 0, enemies |-> pair,
      x |-> 338, y |-> 130, vy |-> 200, toy |-> FALSE, hearts |-> hearts, script |-> << >> ]
    : hearts \in {1, MAX_HEARTS},
      pair \in { << Patrolling(0, "tank", 335, 1), Patrolling(0, "rat", 350, -1) >>,
                 << Patrolling(0, "rat", 350, -1), Patrolling(0, "tank", 335, 1) >> } }
  \cup
  { [ levelIndex |-> 0,
      enemies |-> << Patrolling(0, "rat", 325, 1), Patrolling(0, "tank", 357, -1) >>,
      x |-> 340, y |-> GroundY(0), vy |-> 0, toy |-> FALSE, hearts |-> hearts,
      script |-> << >> ]
    : hearts \in {1, 2} }

(* Last level, in front of its exit gate with the golden toy. *)
LastLevelScenes ==
  { [ levelIndex |-> 2, enemies |-> << Patrolling(2, "mouse", 1900, -1) >>,
      x |-> 2062, y |-> GroundY(2), vy |-> 0, toy |-> TRUE, hearts |-> MAX_HEARTS,
      script |-> << Press("ArrowRight") >> ] }

(* Level 0, no golden toy: the player has walked into the locked gate,     *)
(* turned round, and is n frames on the way back                           *)
LeavingGate(n) ==
  << Press("ArrowRight"), Frames(3), Release("ArrowRight"), Press("ArrowLeft"), Frames(n) >>

(* about to step out of the gate; the hint about to run out *)
HintScenes ==
  { [ levelIndex |-> 0, enemies |-> << Patrolling(0, "rat", 1760, -1) >>,
      x |-> 1664, y |-> GroundY(0), vy |-> 0, toy |-> FALSE, hearts |-> MAX_HEARTS,
      script |-> LeavingGate(n) ]
    : n \in {5, 48} }

(* the games a session is entered in mid-level *)
SessionScenes ==
  { Scene(setup) : setup \in GateScenes \cup EnemyScenes \cup LastLevelScenes \cup HintScenes }

(* the keys that are down according to the Input object *)
HeldKeys(g) == { code \in KeyCodes : g.input.state[CONTROL_KEYS[code]] }

(* Level 0, the player standing on dig spot spotIndex                      *)
DigSite(spotIndex) ==
  Standing(InPlay(0, StartMs, << >>),
           generateDigSpots(LEVELS[1].digSeed)[spotIndex].x \div PX, GroundY(0), 0)

(* a dig under way for 13 frames, two frames before it completes           *)
Digging == << Press("ArrowDown"), Frames(13) >>

(* the dog has dug, stepped off to the right while the bone popped, come   *)
(* to a halt past it, and turns back                                       *)
TurningBack ==
  Digging \o << Press("ArrowRight"), Frames(7), Release("ArrowRight"), Frames(4),
                Press("ArrowLeft") >>

(* a dig on a spot with a bone and on one without, two frames before it    *)
(* completes; and the way back to a bone that has settled                  *)
DigScenes ==
  { Replay(DigSite(dig.spotIndex), dig.script)
    : dig \in { [spotIndex |-> 1, script |-> Digging],
                [spotIndex |-> 4, script |-> Digging],
                [spotIndex |-> 1, script |-> TurningBack] } }

(* Level 0, the dog on the ground or on a ledge next to an obstacle:       *)
(* left of the low ledge at x = 668 that it cannot pass under, below the   *)
(* ledge at x = 410 that it just fits under, left of the first ledge, at   *)
(* the two ends of the level, and on the first ledge; a tank walks into    *)
(* the side of the last ledge and a rat towards the dog at the right end.  *)
MoveSpots ==
  { [x |-> 645, top |-> GroundY(0), enemies |-> << Patrolling(0, "tank", 1687, 1) >>],
    [x |-> 430, top |-> GroundY(0), enemies |-> << >>],
    [x |-> 72, top |-> GroundY(0), enemies |-> << >>],
    [x |-> 6, top |-> GroundY(0), enemies |-> << Patrolling(0, "rat", 26, -1) >>],
    [x |-> 1779, top |-> GroundY(0), enemies |-> << Patrolling(0, "rat", 1761, 1) >>],
    [x |-> 150, top |-> LEVELS[1].platforms[2].y, enemies |-> << >>] }

(* the game with the arrow key code held, or with none for "" *)
HoldingKey(g, code) == IF code = "" THEN g ELSE KeyHeld(g, code)

(* the dog at one of the spots, or dropping in at the start position of a  *)
(* level just loaded                                                       *)
MoveSites ==
  { Standing(InPlay(0, StartMs, spot.enemies), spot.x, spot.top, 0) : spot \in MoveSpots }
    \cup { InPlay(levelIndex, StartMs, << >>) : levelIndex \in 0..(Len(LEVELS) - 1) }

MoveScenes ==
  { HoldingKey(g, code) : g \in MoveSites, code \in {"", "ArrowLeft", "ArrowRight"} }

(* Level 0 with a wave under way, the dog far from the enemies: a respawn  *)
(* timer (one enemy was stomped earlier) runs out in the next frame, with  *)
(* two or three enemies alive (one of them beside a spawn point or none),  *)
(* and so does the spawn timer or not; or the dog is falling onto a rat    *)
(* next to a tank or a mouse, or onto a rat with two more enemies alive    *)
(* and a respawn timer that runs out in the next frame.                    *)
WaveEnemies ==
  << Patrolling(0, "rat", 300, 1), Patrolling(0, "mouse", 340, -1), Patrolling(0, "tank", 380, 1) >>

WaveScenes ==
  { [ Standing(InPlay(0, StartMs, wave.enemies), 900, GroundY(0), 0)
        EXCEPT !.spawnTimerSec = wave.spawnTimerSec, !.pendingRespawnTimers = << SEC \div 60 >> ]
    : wave \in { [enemies |-> WaveEnemies, spawnTimerSec |-> SEC \div 60],
                 [enemies |-> SubSeq(WaveEnemies, 1, 2), spawnTimerSec |-> SEC \div 60],
                 [enemies |-> SubSeq(WaveEnemies, 1, 2), spawnTimerSec |-> 4 * SEC],
                 [enemies |-> << Patrolling(0, "rat", 300, 1), Patrolling(0, "mouse", 445, -1) >>,
                  spawnTimerSec |-> SEC \div 60] } }
  \cup
  { [ Falling(InPlay(0, StartMs, << Patrolling(0, "rat", 300, 1) >> \o fall.others), 298, 134, 200)
        EXCEPT !.pendingRespawnTimers = fall.timers ]
    : fall \in { [others |-> << Patrolling(0, "tank", 335, 1) >>, timers |-> << >>],
                 [others |-> << Patrolling(0, "mouse", 335, 1) >>, timers |-> << >>],
                 [others |-> << Patrolling(0, "tank", 335, 1), Patrolling(0, "mouse", 700, 1) >>,
                  timers |-> << SEC \div 60 >>] } }

(* Level 0, the dog 13 frames into a dig with dust in the air, no enemy    *)
(* alive: the respawn timers of enemies stomped earlier run out in the     *)
(* next frame.                                                             *)
PoolScenes ==
  { [ Replay(DigSite(pool.spotIndex), Digging) EXCEPT !.pendingRespawnTimers = pool.timers ]
    : pool \in { [spotIndex |-> 4, timers |-> << SEC \div 60, SEC \div 60 >>],
                 [spotIndex |-> 1, timers |-> << SEC \div 60 >>] } }

(* Level 0, open ground: the dog comes down on a tank at the speed of the  *)
(* descent of a jump, the frame before it touches, at two heights; or      *)
(* stands between a rat and a tank that close in; or presses the dig key   *)
(* on the fourth dig spot with a rat ten pixels away; or stands in the way *)
(* of a mouse.                                                             *)
HitScenes ==
  { Scene(setup) : setup \in
      { [ levelIndex |-> 0, enemies |-> << Patrolling(0, "tank", 335, 1) >>,
          x |-> 338, y |-> y, vy |-> vy, toy |-> FALSE, hearts |-> MAX_HEARTS,
          script |-> << >> ]
        : y \in {126, 133}, vy \in {380} }
      \cup
      { [ levelIndex |-> 0,
          enemies |-> << Patrolling(0, "rat", 325, 1), Patrolling(0, "tank", 357, -1) >>,
          x |-> 340, y |-> GroundY(0), vy |-> 0, toy |-> FALSE, hearts |-> hearts,
          script |-> << >> ]
        : hearts \in {2, MAX_HEARTS} }
      \cup
      { [ levelIndex |-> 0, enemies |-> << Patrolling(0, "rat", 320, -1) >>,
          x |-> generateDigSpots(LEVELS[1].digSeed)[4].x \div PX, y |-> GroundY(0), vy |-> 0,
          toy |-> FALSE, hearts |-> MAX_HEARTS, script |-> << Press("ArrowDown") >> ] }
      \cup
      { [ levelIndex |-> 0, enemies |-> << Patrolling(0, "mouse", 357, -1) >>,
          x |-> 340, y |-> GroundY(0), vy |-> 0, toy |-> FALSE, hearts |-> hearts,
          script |-> << >> ]
        : hearts \in {2, MAX_HEARTS} } }

(* Level 0, the dig key just pressed: the dog stands on the fourth dig     *)
(* spot (no bone) with a rat ten pixels away and three hearts or one, or   *)
(* on the first dig spot (a bone) with no enemy near.                      *)
DigRunScenes ==
  { Scene(setup) : setup \in
      { [ levelIndex |-> 0, enemies |-> run.enemies,
          x |-> generateDigSpots(LEVELS[1].digSeed)[run.spotIndex].x \div PX,
          y |-> GroundY(0), vy |-> 0, toy |-> FALSE, hearts |-> run.hearts,
          script |-> << Press("ArrowDown") >> ]
        : run \in { [spotIndex |-> 4, enemies |-> << Patrolling(0, "rat", 320, -1) >>, hearts |-> MAX_HEARTS],
                    [spotIndex |-> 4, enemies |-> << Patrolling(0, "rat", 320, -1) >>, hearts |-> 1],
                    [spotIndex |-> 1, enemies |-> << >>, hearts |-> MAX_HEARTS] } } }

(* Level geometries for generateDigSpots: level 0 as it is; a ground 80    *)
(* wide, with room for two dig spots at most; the same ground with an      *)
(* enemy spawn point in its middle, with room for none; a ground 200 wide. *)
DigGeometries ==
  { LEVELS[1] }
  \cup
  { [ LEVELS[1] EXCEPT !.width = ground.w * PX,
                       !.platforms = << Rect(0, 164, ground.w, 16) >>,
                       !.enemySpawnPoints = ground.spawns ]
    : ground \in { [w |-> 80, spawns |-> << >>],
                   [w |-> 80, spawns |-> << [x |-> 45 * PX, groundY |-> 164 * PX] >>],
                   [w |-> 200, spawns |-> << >>] } }

(* an enemy that patrols the platform whose top is at top *)
PatrollingOn(top, type, x, facing) ==
  [ Patrolling(0, type, x, facing) EXCEPT !.y = RestingY(top * PX, ENEMY_STATS[type].height) ]

(* Level 0: a rat and a mouse a few pixels from the two ends of the        *)
(* platform at (804, 128), 86 wide, walking towards them, and a tank on    *)
(* the ground walking towards the platform at (1708, 142), whose underside *)
(* is lower than the tank is tall; or the tank between that platform and   *)
(* the right end of the level, and the rat and a second tank at the ends   *)
(* of the ground.                                                          *)
PatrolScenes ==
  { InPlay(0, StartMs, enemies) : enemies \in
      { << PatrollingOn(128, "rat", 868, 1), PatrollingOn(128, "mouse", 812, -1),
           Patrolling(0, "tank", 1685, 1) >>,
        << Patrolling(0, "rat", 1780, 1), Patrolling(0, "tank", 8, -1),
           Patrolling(0, "tank", 1776, -1) >> } }

(* Level 0 with three enemies alive and no respawn pending: the dog is     *)
(* falling onto the rat, and the spawn timer of the wave runs out in the   *)
(* frame after the next or four seconds later.                             *)
QueueScenes ==
  { [ Falling(InPlay(0, StartMs, << Patrolling(0, "rat", 300, 1), Patrolling(0, "tank", 335, 1),
                                    Patrolling(0, "mouse", 700, 1) >>), 298, 134, 200)
        EXCEPT !.spawnTimerSec = spawnTimerSec ]
    : spawnTimerSec \in { (3 * MAX_DELTA) \div 2, 4 * SEC } }


----------------------------------------------------------------------------
(* Actions of the host.                                                    *)

(* the page calls game.start() *)
Start ==
  /\ ~game.isRunning
  /\ game' = start(game, clock)
  /\ raf' = raf + 1
  /\ obs' = [obs EXCEPT !.op = "start"]
  /\ UNCHANGED << clock, held >>

(* what a frame that took the game from prev to next, at time stamp        *)
(* timestamp, adds to the observers                                        *)
ObserveFrame(o, prev, next, timestamp, gap) ==
  [o EXCEPT
     !.frames = @ + 1,
     !.op = "frame",
     !.gap = gap,
     !.groundedFrameMs = IF next.ev.grounded THEN timestamp ELSE @,
     !.bounced = IF next.ev.stomps > 0 THEN TRUE
                 ELSE IF next.ev.landed THEN FALSE
                 ELSE IF next.ev.jumped THEN TRUE
                 ELSE IF next.ev.grounded THEN FALSE
                 ELSE @,
     !.airPress =
        [ case |-> /\ prev.isRunning
                   /\ prev.gameState = "playing"
                   /\ prev.playerState = "normal"
                   /\ ~prev.player.grounded
                   /\ \/ next.ev.consumedJump
                      \/ timestamp - prev.lastJumpPressedTimeMs <= JUMP_BUFFER_MS,
          sinceGroundedMs |-> timestamp - o.groundedFrameMs,
          bounced |-> o.bounced ],
     !.jumpCredit = (IF next.ev.consumedJump THEN 1 ELSE @)
                    - (IF next.ev.jumped THEN 1 ELSE 0),
     !.consumed = [jump |-> 0, dig |-> 0],
     !.tries = [jump |-> 0, dig |-> 0],
     !.outcomes = @ \o next.ev.outcomes,
     !.losses = IF next.ev.heartsLost > 0 THEN Append(@, next.elapsedSec) ELSE @,
     !.dig = IF prev.playerState = "digging"
             THEN [@ EXCEPT !.delta = @ + (IF prev.isRunning /\ prev.gameState = "playing"
                                           THEN next.ev.delta ELSE 0)]
             ELSE IF next.playerState = "digging"
             THEN [spot |-> next.activeDigSpotIndex, delta |-> next.ev.delta]
             ELSE [spot |-> NoSpot, delta |-> 0],
     !.before = Snapshot(prev)]

(* one frame callback: loop(timestamp), which requests the next one; the   *)
(* first callback after start() draws its gap from firstGaps               *)
FrameUpTo(gaps, firstGaps, maxFrames) ==
  /\ raf > 0
  /\ obs.frames < maxFrames
  /\ \E gap \in (IF obs.op = "start" THEN firstGaps ELSE gaps) :
       LET timestamp == clock + gap
       IN /\ \E next \in loop(game, timestamp) :
               /\ game' = next
               /\ obs' = ObserveFrame(obs, game, next, timestamp, gap)
          /\ clock' = timestamp
  /\ UNCHANGED << raf, held >>

Frame(gaps, firstGaps) == FrameUpTo(gaps, firstGaps, MaxFrames)

(* the page's buttons: restart(), restartFromFirstLevel(), nextLevel() *)
Restart ==
  /\ obs.calls < MaxCalls
  /\ game' \in restart(game)
  /\ obs' = [obs EXCEPT !.calls = @ + 1, !.op = "load", !.nextLevelCall = << >>,
                        !.outcomes = << >>, !.losses = << >>,
                        !.dig = [spot |-> NoSpot, delta |-> 0]]
  /\ UNCHANGED << clock, raf, held >>

RestartFromFirstLevel ==
  /\ obs.calls < MaxCalls
  /\ game' \in restartFromFirstLevel(game)
  /\ obs' = [obs EXCEPT !.calls = @ + 1, !.op = "load", !.nextLevelCall = << >>,
                        !.outcomes = << >>, !.losses = << >>,
                        !.dig = [spot |-> NoSpot, delta |-> 0]]
  /\ UNCHANGED << clock, raf, held >>

NextLevel ==
  /\ obs.calls < MaxCalls
  /\ \E r \in nextLevel(game) :
       /\ game' = r.g
       /\ obs' = [obs EXCEPT !.calls = @ + 1,
                             !.op = IF r.result THEN "load" ELSE "nextLevelRefused",
                             !.nextLevelCall = << [before |-> game, result |-> r.result] >>,
                             !.outcomes = IF r.result THEN << >> ELSE @,
                             !.losses = IF r.result THEN << >> ELSE @,
                             !.dig = IF r.result THEN [spot |-> NoSpot, delta |-> 0] ELSE @]
  /\ UNCHANGED << clock, raf, held >>

(* a keydown event for one of codes: the key goes down, or is held and     *)
(* auto-repeats                                                            *)
KeyDown(codes) ==
  /\ obs.events < MaxInputEvents
  /\ \E code \in codes :
       LET after == keydown(game.input, code)
           pressedFlag == IF code = "Space" THEN "jumpPressed" ELSE "digPressed"
           edge == ~game.input.state[pressedFlag] /\ after.state[pressedFlag]
       IN /\ game' = [game EXCEPT !.input = after]
          /\ held' = held \cup {code}
          /\ obs' = [obs EXCEPT
                       !.events = @ + 1,
                       !.op = IF code \in held THEN "keyrepeat" ELSE "keydown",
                       !.edges[code] = (IF code \in held THEN @ ELSE 0) + Number(edge)]
  /\ UNCHANGED << clock, raf >>

(* a keyup event: a held key is released *)
KeyUp(codes) ==
  /\ obs.events < MaxInputEvents
  /\ \E code \in codes \cap held :
       /\ game' = [game EXCEPT !.input = keyup(game.input, code)]
       /\ held' = held \ {code}
       /\ obs' = [obs EXCEPT !.events = @ + 1, !.op = "keyup", !.edges[code] = 0]
  /\ UNCHANGED << clock, raf >>

(* pointerdown on a touch button that no finger is on *)
PointerDown(controls) ==
  /\ obs.events < MaxInputEvents
  /\ \E control \in controls \ held :
       /\ game' = [game EXCEPT !.input = press(game.input, control)]
       /\ held' = held \cup {control}
       /\ obs' = [obs EXCEPT !.events = @ + 1, !.op = "pointerdown"]
  /\ UNCHANGED << clock, raf >>

(* pointerup, pointerleave or pointercancel on a touch button: the finger  *)
(* on it lifts, slides off, or is taken by the browser                     *)
PointerRelease(controls) ==
  /\ obs.events < MaxInputEvents
  /\ \E control \in controls \cap held :
       /\ game' = [game EXCEPT !.input = release(game.input, control)]
       /\ held' = held \ {control}
       /\ obs' = [obs EXCEPT !.events = @ + 1, !.op = "pointerrelease"]
  /\ UNCHANGED << clock, raf >>

(* a direct call of input.consumeJumpPressed() *)
ConsumeJump ==
  /\ obs.tries.jump < MaxConsumeCalls
  /\ LET c == consumeJumpPressed(game.input)
     IN /\ game' = [game EXCEPT !.input = c.input]
        /\ obs' = [obs EXCEPT !.op = "consume",
                              !.tries.jump = @ + 1,
                              !.consumed.jump = @ + Number(c.result)]
  /\ UNCHANGED << clock, raf, held >>

(* a direct call of input.consumeDigPressed() *)
ConsumeDig ==
  /\ obs.tries.dig < MaxConsumeCalls
  /\ LET c == consumeDigPressed(game.input)
     IN /\ game' = [game EXCEPT !.input = c.input]
        /\ obs' = [obs EXCEPT !.op = "consume",
                              !.tries.dig = @ + 1,
                              !.consumed.dig = @ + Number(c.result)]
  /\ UNCHANGED << clock, raf, held >>

(* a direct call of input.endFrame() *)
EndFrame ==
  /\ obs.frames < MaxFrames
  /\ game' = [game EXCEPT !.input = endFrame(game.input)]
  /\ obs' = [obs EXCEPT !.frames = @ + 1, !.op = "endFrame",
                        !.consumed = [jump |-> 0, dig |-> 0],
                        !.tries = [jump |-> 0, dig |-> 0]]
  /\ UNCHANGED << clock, raf, held >>

(* a direct call of applyStomp() on one of the enemies *)
Stomp ==
  /\ Len(obs.stomped) < MaxStomps
  /\ \E i \in 1..Len(game.enemies) :
       LET r == applyStomp(game.enemies[i])
       IN /\ game' = [game EXCEPT !.enemies[i] = r.enemy]
          /\ obs' = [obs EXCEPT !.op = "stomp",
                                !.stomped = Append(@, [index |-> i,
                                                       before |-> game.enemies[i],
                                                       after |-> r.enemy,
                                                       result |-> r.result])]
  /\ UNCHANGED << clock, raf, held >>

(* a direct call of update() on every enemy, as Game.update does *)
StepEnemies ==
  /\ obs.frames < MaxFrames
  /\ game' = UpdateEnemies(game, MAX_DELTA)
  /\ obs' = [obs EXCEPT !.frames = @ + 1, !.op = "enemyUpdate"]
  /\ UNCHANGED << clock, raf, held >>

----------------------------------------------------------------------------
(* Spec: a session.  A run starts at construction, or in one of the        *)
(* mid-level states above with the frame loop running; the display runs    *)
(* at 30 Hz.                                                               *)

FrameGapsMs == {34}

Init ==
  /\ held = {}
  /\ \/ game \in newGame /\ raf = 0
     \/ game \in SessionScenes /\ raf = 1
  /\ clock = IF game.isRunning THEN game.lastTick ELSE StartMs
  /\ obs = ObsOf(game)

SessionFrame == Frame(FrameGapsMs, FrameGapsMs)

Next ==
  \/ Start
  \/ SessionFrame
  \/ Restart
  \/ RestartFromFirstLevel
  \/ NextLevel

Spec == Init /\ [][Next]_vars

----------------------------------------------------------------------------
(* SpecClock: the frame loop under irregular frame time stamps: a 60 Hz    *)
(* and a 30 Hz gap, a five-second stall (a background tab), and a first    *)
(* frame whose time stamp precedes the performance.now() of start().       *)

ClockGapsMs == {16, 34, 5000}
FirstFrameGapsMs == {-2, 10}

InitClock ==
  /\ clock = StartMs
  /\ held = {}
  /\ raf = 0
  /\ game \in newGame
  /\ obs = ObsOf(game)

ClockFrame == Frame(ClockGapsMs, FirstFrameGapsMs)

NextClock ==
  \/ Start
  \/ ClockFrame

SpecClock == InitClock /\ [][NextClock]_vars

----------------------------------------------------------------------------
(* SpecJump: the jump windows.  The player runs right along the first      *)
(* ledge of level 0, a third of a second from its end, or is about to run  *)
(* off it; the user presses and releases Space; frames come 50 or 70 ms    *)
(* apart.                                                                  *)

JumpGapsMs == {50, 70}
JumpKeys == {"Space"}

OnLedge(x) ==
  LET ledge == LEVELS[1].platforms[2]
      g == Standing(InPlay(0, StartMs, << >>), x, ledge.y, MAX_SPEED)
  IN Holding(g, "right")

JumpScenes == { OnLedge(164), OnLedge(120) }

InitJump ==
  /\ clock = StartMs
  /\ held = {"ArrowRight"}
  /\ raf = 1
  /\ game \in JumpScenes
  /\ obs = ObsOf(game)

JumpFrame == Frame(JumpGapsMs, JumpGapsMs)
JumpKeyDown == KeyDown(JumpKeys)
JumpKeyUp == KeyUp(JumpKeys)

NextJump ==
  \/ JumpFrame
  \/ JumpKeyDown
  \/ JumpKeyUp

SpecJump == InitJump /\ [][NextJump]_vars

----------------------------------------------------------------------------
(* SpecInput: the Input object alone, with the events a keyboard and the   *)
(* touch buttons deliver and the calls Game makes on it.                   *)

InputKeys == {"Space", "ArrowDown"}
InputButtons == {"jump", "dig"}

InitInput ==
  /\ clock = StartMs
  /\ held = {}
  /\ raf = 1
  /\ game = InPlay(0, StartMs, << >>)
  /\ obs = ObsOf(game)

InputKeyDown == KeyDown(InputKeys)
InputKeyUp == KeyUp(InputKeys)
InputPointerDown == PointerDown(InputButtons)
InputPointerRelease == PointerRelease(InputButtons)

NextInput ==
  \/ InputKeyDown
  \/ InputKeyUp
  \/ InputPointerDown
  \/ InputPointerRelease
  \/ ConsumeJump
  \/ ConsumeDig
  \/ EndFrame

SpecInput == InitInput /\ [][NextInput]_vars

----------------------------------------------------------------------------
(* SpecEnemy: enemies alone, one of each type on the ground of level 0,    *)
(* stepped and stomped in any order.                                       *)

EnemyArena ==
  InPlay(0, StartMs, << Patrolling(0, "rat", 300, 1),
                        Patrolling(0, "mouse", 340, -1),
                        Patrolling(0, "tank", 380, 1) >>)

InitEnemy ==
  /\ clock = StartMs
  /\ held = {}
  /\ raf = 1
  /\ game = EnemyArena
  /\ obs = ObsOf(game)

NextEnemy ==
  \/ Stomp
  \/ StepEnemies

SpecEnemy == InitEnemy /\ [][NextEnemy]_vars

----------------------------------------------------------------------------
(* SpecDig: digging.  The dog digs on a dig spot of level 0, the user      *)
(* presses and releases ArrowRight and ArrowDown; the display runs at      *)
(* 30 Hz.                                                                  *)

DigKeys == {"ArrowRight", "ArrowDown"}

InitDig ==
  /\ game \in DigScenes
  /\ clock = game.lastTick
  /\ held = HeldKeys(game)
  /\ raf = 1
  /\ obs = ObsOf(game)

DigFrame == FrameUpTo(FrameGapsMs, FrameGapsMs, MaxDigFrames)
DigKeyDown == KeyDown(DigKeys)
DigKeyUp == KeyUp(DigKeys)

NextDig ==
  \/ DigFrame
  \/ DigKeyDown
  \/ DigKeyUp

SpecDig == InitDig /\ [][NextDig]_vars

----------------------------------------------------------------------------
(* SpecRng: two calls of generateDigSpots with the seed of the same level, *)
(* each with its own generator, running side by side on two Game objects:  *)
(* a freshly loaded one, or one in play with an enemy, a heart lost and    *)
(* the player elsewhere.                                                   *)

DigSpotContexts(levelIndex) ==
  { InPlay(levelIndex, StartMs, << >>),
    WithHearts(Standing(InPlay(levelIndex, StartMs + 5000 * MS,
                               << Patrolling(levelIndex, "rat", 400, 1) >>),
                        500, GroundY(levelIndex), MAX_SPEED), 1) }

InitRng ==
  /\ clock = StartMs
  /\ held = {}
  /\ raf = 0
  /\ obs = NoObs
  /\ \E levelIndex \in 0..(Len(LEVELS) - 1) :
       \E first \in DigSpotContexts(levelIndex), second \in DigSpotContexts(levelIndex) :
         game = [ levelSeed |-> LEVELS[levelIndex + 1].digSeed,
                  runs |-> << [this |-> first, local |-> << >>],
                              [this |-> second, local |-> << >>] >> ]

(* a call enters generateDigSpots and draws the count *)
DigSpotsCall ==
  /\ \E i \in 1..2 :
       /\ game.runs[i].local = << >>
       /\ \E run \in DigSpotsBegin(game.runs[i].this, game.levelSeed) :
            game' = [game EXCEPT !.runs[i].local = << run >>]
  /\ UNCHANGED << clock, raf, held, obs >>

(* a call makes one pass of its while loop *)
DigSpotsLoop ==
  /\ \E i \in 1..2 :
       /\ game.runs[i].local # << >>
       /\ ~DigSpotsDone(game.runs[i].local[1])
       /\ \E run \in DigSpotsAttempt(game.runs[i].this, game.runs[i].local[1]) :
            game' = [game EXCEPT !.runs[i].local = << run >>]
  /\ UNCHANGED << clock, raf, held, obs >>

NextRng ==
  \/ DigSpotsCall
  \/ DigSpotsLoop

SpecRng == InitRng /\ [][NextRng]_vars

----------------------------------------------------------------------------
(* SpecMove: the dog moving against the platforms and the ends of the      *)
(* level, or dropping in after a level load.  An arrow key is held or not  *)
(* at the start; the user presses Space and releases keys; the display     *)
(* runs at 30 Hz.                                                          *)

MoveKeys == {"ArrowLeft", "ArrowRight", "Space"}
MoveJumpKeys == {"Space"}

InitMove ==
  /\ game \in MoveScenes
  /\ clock = game.lastTick
  /\ held = HeldKeys(game)
  /\ raf = 1
  /\ obs = ObsOf(game)

MoveFrame == FrameUpTo(FrameGapsMs, FrameGapsMs, MaxMoveFrames)
MoveKeyDown == KeyDown(MoveJumpKeys)
MoveKeyUp == KeyUp(MoveKeys)

NextMove ==
  \/ MoveFrame
  \/ MoveKeyDown
  \/ MoveKeyUp

SpecMove == InitMove /\ [][NextMove]_vars

----------------------------------------------------------------------------
(* SpecWave: the enemy wave: interval spawns, a stomp, respawns and level  *)
(* loads (restart, next level); the display runs at 30 Hz.                 *)

InitWave ==
  /\ game \in WaveScenes
  /\ clock = game.lastTick
  /\ held = {}
  /\ raf = 1
  /\ obs = ObsOf(game)

WaveFrame == FrameUpTo(FrameGapsMs, FrameGapsMs, MaxWaveFrames)

NextWave ==
  \/ WaveFrame
  \/ Restart
  \/ NextLevel

SpecWave == InitWave /\ [][NextWave]_vars

----------------------------------------------------------------------------
(* SpecPool: the particle pool.  The dog digs while enemies respawn; the   *)
(* display runs at 30 Hz.                                                  *)

InitPool ==
  /\ game \in PoolScenes
  /\ clock = game.lastTick
  /\ held = HeldKeys(game)
  /\ raf = 1
  /\ obs = ObsOf(game)

PoolFrame == FrameUpTo(FrameGapsMs, FrameGapsMs, MaxPoolFrames)

NextPool == PoolFrame

SpecPool == InitPool /\ [][NextPool]_vars

----------------------------------------------------------------------------
(* SpecHit: encounters with enemies.  The dog lands on a tank or is caught *)
(* between two enemies; the display runs at 30 Hz, no key is touched.      *)

InitHit ==
  /\ game \in HitScenes
  /\ clock = game.lastTick
  /\ held = HeldKeys(game)
  /\ raf = 1
  /\ obs = ObsOf(game)

HitFrame == FrameUpTo(FrameGapsMs, FrameGapsMs, MaxHitFrames)

NextHit == HitFrame

SpecHit == InitHit /\ [][NextHit]_vars

----------------------------------------------------------------------------
(* SpecDigRun: a dig from its first update to its last.  The user presses  *)
(* and releases the arrow, jump and dig keys; the display runs at 30 Hz.   *)
(* loop() ends by requesting the next animation frame (game.ts:601), and   *)
(* the browser runs a requested frame callback: the frame is weakly fair.  *)

RunKeys == {"ArrowLeft", "ArrowDown", "Space"}

InitDigRun ==
  /\ game \in DigRunScenes
  /\ clock = game.lastTick
  /\ held = HeldKeys(game)
  /\ raf = 1
  /\ obs = ObsOf(game)

RunFrame == FrameUpTo(FrameGapsMs, FrameGapsMs, MaxRunFrames)
RunKeyDown == obs.events < MaxRunEvents /\ KeyDown(RunKeys)
RunKeyUp == obs.events < MaxRunEvents /\ KeyUp(RunKeys)

NextDigRun ==
  \/ RunFrame
  \/ RunKeyDown
  \/ RunKeyUp

(* ENABLED <<RunFrame>>_vars: a frame is requested and the run goes on;    *)
(* loop() always returns, and moves the clock                              *)
RunFrameDue == raf > 0 /\ obs.frames < MaxRunFrames

(* weak fairness of RunFrame, with its ENABLED written out as RunFrameDue  *)
RunFrameFair == []<>(~RunFrameDue) \/ []<><<RunFrame>>_vars

SpecDigRun == InitDigRun /\ [][NextDigRun]_vars /\ RunFrameFair

----------------------------------------------------------------------------
(* SpecSpots: one call of generateDigSpots on a level geometry with the    *)
(* seed of a level, pass by pass.  The while loop runs to its end: every   *)
(* pass is followed by the loop test and by the next pass.                 *)

InitSpots ==
  /\ clock = 0
  /\ held = {}
  /\ raf = 0
  /\ obs = NoObs
  /\ \E level \in DigGeometries, l \in 1..Len(LEVELS) :
       game = [ level |-> level, levelSeed |-> LEVELS[l].digSeed, local |-> << >> ]

SpotsCall ==
  /\ game.local = << >>
  /\ \E run \in DigSpotsBegin(game, game.levelSeed) :
       game' = [game EXCEPT !.local = << run >>]
  /\ UNCHANGED << clock, raf, held, obs >>

SpotsLoop ==
  /\ game.local # << >>
  /\ ~DigSpotsDone(game.local[1])
  /\ \E run \in DigSpotsPass(game.level, game.local[1]) :
       game' = [game EXCEPT !.local = << run >>]
  /\ UNCHANGED << clock, raf, held, obs >>

NextSpots ==
  \/ SpotsCall
  \/ SpotsLoop

(* a step of the call is possible *)
SpotsDue == game.local = << >> \/ ~DigSpotsDone(game.local[1])

(* weak fairness of NextSpots, with its ENABLED written out as SpotsDue *)
SpotsFair == []<>(~SpotsDue) \/ []<><<NextSpots>>_vars

SpecSpots == InitSpots /\ [][NextSpots]_vars /\ SpotsFair

----------------------------------------------------------------------------
(* SpecPatrol: enemies alone at the ends of platforms and next to walls,   *)
(* stepped at 30 Hz; one of them is stomped at some moment or none.        *)

InitPatrol ==
  /\ clock = StartMs
  /\ held = {}
  /\ raf = 1
  /\ game \in PatrolScenes
  /\ obs = ObsOf(game)

(* a direct call of update() on every enemy, as Game.update does; the      *)
(* enemies as they were are kept in obs.patrol                             *)
PatrolStep ==
  /\ obs.frames < MaxPatrolFrames
  /\ game' = UpdateEnemies(game, MAX_DELTA)
  /\ obs' = [obs EXCEPT !.frames = @ + 1, !.op = "enemyUpdate", !.patrol = game.enemies]
  /\ UNCHANGED << clock, raf, held >>

PatrolStomp == Len(obs.stomped) < MaxPatrolStomps /\ Stomp

NextPatrol ==
  \/ PatrolStep
  \/ PatrolStomp

SpecPatrol == InitPatrol /\ [][NextPatrol]_vars

----------------------------------------------------------------------------
(* SpecQueue: the respawn queue.  A kill with the wave spawn due; the      *)
(* display runs at 30 Hz.                                                  *)

InitQueue ==
  /\ game \in QueueScenes
  /\ clock = game.lastTick
  /\ held = {}
  /\ raf = 1
  /\ obs = ObsOf(game)

QueueFrame == FrameUpTo(FrameGapsMs, FrameGapsMs, MaxQueueFrames)

NextQueue == QueueFrame

SpecQueue == InitQueue /\ [][NextQueue]_vars

----------------------------------------------------------------------------
(* SpecLoop: the frame loop of a new Game.  The page calls start() any     *)
(* number of times, before and between frames; the user presses and        *)
(* releases Space and ArrowDown; the display runs at 30 Hz.  raf is the    *)
(* number of animation-frame callbacks that are scheduled.                 *)

LoopKeys == {"Space", "ArrowDown"}

InitLoop ==
  /\ clock = StartMs
  /\ held = {}
  /\ raf = 0
  /\ game \in newGame
  /\ obs = ObsOf(game)

(* a call of start(), game.ts:476-484 *)
LoopStart ==
  /\ obs.starts < MaxStarts
  /\ game' = start(game, clock)
  /\ raf' = raf + Number(startRequestsFrame(game))
  /\ obs' = [obs EXCEPT !.starts = @ + 1, !.op = "start"]
  /\ UNCHANGED << clock, held >>

(* one scheduled callback runs loop(), which schedules the next; the       *)
(* pressed flags as they were before the frame are kept in obs.pressed     *)
LoopFrame ==
  /\ raf > 0
  /\ obs.frames < MaxLoopFrames
  /\ \E gap \in FrameGapsMs :
       /\ \E next \in loop(game, clock + gap) :
            /\ game' = next
            /\ obs' = [ObserveFrame(obs, game, next, clock + gap, gap)
                         EXCEPT !.pressed = [jump |-> game.input.state.jumpPressed,
                                             dig |-> game.input.state.digPressed]]
       /\ clock' = clock + gap
  /\ UNCHANGED << raf, held >>

LoopKeyDown == obs.events < MaxLoopEvents /\ KeyDown(LoopKeys)
LoopKeyUp == obs.events < MaxLoopEvents /\ KeyUp(LoopKeys)

NextLoop ==
  \/ LoopStart
  \/ LoopFrame
  \/ LoopKeyDown
  \/ LoopKeyUp

SpecLoop == InitLoop /\ [][NextLoop]_vars


----------------------------------------------------------------------------
(* Properties of the session (Spec).                                       *)

(* C1: after any sequence of update(), restart(), restartFromFirstLevel()  *)
(* and nextLevel() calls, hearts is an integer in [0, MAX_HEARTS].         *)
HeartsInRange == game.hearts \in 0..MAX_HEARTS

(* a hazard hit has just taken the last heart *)
HeartsInRange_Witness ==
  obs.op = "frame" /\ game.ev.hazards = 1 /\ game.ev.heartsLost = 1 /\ game.hearts = 0

(* C2: between two level loads onGameOver is invoked exactly once, in the  *)
(* update in which hearts first reaches 0, and not again until loadLevel   *)
(* runs; it is never invoked while hearts > 0.  (game.calls counts the     *)
(* invocations since the last loadLevel, game.ev those of the last frame.) *)
GameOverOnce ==
  /\ game.calls.onGameOver = IF game.hearts = 0 THEN 1 ELSE 0
  /\ game.ev.onGameOver = IF game.hearts = 0 /\ game.ev.heartsLost > 0 THEN 1 ELSE 0

(* a frame has run after the one that took the last heart *)
GameOverOnce_Witness ==
  /\ obs.op = "frame"
  /\ game.hearts = 0
  /\ game.calls.onGameOver = 1
  /\ game.ev.heartsLost = 0

(* C3: when hearts reach 0 during an update, the session state when that   *)
(* update returns is gameOver and stays gameOver until a level is loaded;  *)
(* no update invokes both onGameOver and onLevelComplete.  (hearts stay 0  *)
(* until a level is loaded.)                                               *)
GameOverIsFinal ==
  game.hearts = 0 =>
    /\ game.gameState = "gameOver"
    /\ game.calls.onLevelComplete = 0
    /\ ~(game.ev.onGameOver > 0 /\ game.ev.onLevelComplete > 0)

(* C4: in one update at most one player-enemy encounter is resolved, as a  *)
(* stomp (applyStomp plus upward bounce) or as a hazard hit (one heart     *)
(* lost, knockback, invincibility), never both; no update loses more than  *)
(* one heart or stomps more than one enemy.                                *)
OneEncounterPerUpdate ==
  /\ game.ev.stomps + game.ev.hazards <= 1
  /\ Len(game.ev.stomped) = game.ev.stomps
  /\ game.ev.heartsLost <= game.ev.hazards
  /\ game.ev.stomps = 1 =>
       /\ game.ev.heartsLost = 0
       /\ game.player.vy = -STOMP_BOUNCE_SPEED
  /\ game.ev.hazards = 1 =>
       /\ game.ev.heartsLost = 1
       /\ game.invincibleTimerSec = PLAYER_IFRAMES_SEC
       /\ game.player.vy = -Speed(PLAYER_KNOCKBACK_Y)
       /\ Abs(game.player.vx) = Speed(PLAYER_KNOCKBACK_X)

(* an encounter was resolved in a frame in which the player overlapped two *)
(* living enemies                                                          *)
OneEncounterPerUpdate_Witness ==
  /\ obs.op = "frame"
  /\ game.ev.stomps + game.ev.hazards = 1
  /\ \E i, j \in 1..Len(game.enemies) :
       /\ i # j
       /\ isAlive(game.enemies[i]) /\ isAlive(game.enemies[j])
       /\ intersectsWithSkin(game.player, getBody(game.enemies[i]), 0)
       /\ intersectsWithSkin(game.player, getBody(game.enemies[j]), 0)

(* C5: after every update and every level load camera.x is within          *)
(* [0, levelWidth - INTERNAL_WIDTH] for the current level.                 *)
CameraInBounds ==
  /\ game.camera.x >= 0
  /\ game.camera.x <= currentLevel(game).width - INTERNAL_WIDTH * PX

(* a frame in which the clamp held the camera at the right end of the level *)
CameraInBounds_Witness ==
  /\ obs.op = "frame"
  /\ game.gameState = "playing"
  /\ game.player.x - CAMERA_PLAYER_SCREEN_X * PX > currentLevel(game).width - INTERNAL_WIDTH * PX
  /\ game.camera.x = currentLevel(game).width - INTERNAL_WIDTH * PX

(* the player's rectangle overlaps the exit gate (after an update: as it   *)
(* did when the update tested it)                                          *)
OnGate == intersectsWithSkin(game.player, game.exitGate, 0)

(* C12, as stated: when the player overlaps the exit gate without holding  *)
(* the golden toy, the session state stays playing, no callback fires, and *)
(* the gate hint timer is set to at least GATE_LOCKED_HINT_SEC; the hint   *)
(* timer then counts down to 0 once the player no longer overlaps the gate.*)
LockedGateHint ==
  obs.op = "frame" /\ obs.before.updating =>
    /\ OnGate /\ ~game.hasGoldenToy =>
         /\ game.gameState = "playing"
         /\ game.ev.onGameOver = 0 /\ game.ev.onLevelComplete = 0
         /\ game.gateHintTimerSec >= GATE_LOCKED_HINT_SEC
    /\ ~OnGate =>
         game.gateHintTimerSec = Max(0, obs.before.gateHintTimerSec - game.ev.delta)

(* C12, amended: ... the gate changes neither the session state nor fires  *)
(* a callback: the state stays playing and no callback fires, unless a     *)
(* hazard hit of the same update took the last heart (then the state is    *)
(* gameOver and onGameOver has fired); the hint timer is set to at least   *)
(* GATE_LOCKED_HINT_SEC; in every later update with the player off the     *)
(* gate it counts down by delta, to 0.                                     *)
LockedGateHintUnlessKilled ==
  obs.op = "frame" /\ obs.before.updating =>
    /\ OnGate /\ ~game.hasGoldenToy =>
         /\ game.ev.onLevelComplete = 0
         /\ IF game.ev.hazards = 1 /\ game.hearts = 0
            THEN game.gameState = "gameOver" /\ game.ev.onGameOver = 1
            ELSE game.gameState = "playing" /\ game.ev.onGameOver = 0
         /\ game.gateHintTimerSec >= GATE_LOCKED_HINT_SEC
    /\ ~OnGate =>
         game.gateHintTimerSec = Max(0, obs.before.gateHintTimerSec - game.ev.delta)

(* the player has walked into the locked gate: the hint is up, the game    *)
(* goes on                                                                 *)
LockedGateHintUnlessKilled_Witness ==
  /\ obs.op = "frame" /\ obs.before.updating
  /\ OnGate /\ ~game.hasGoldenToy
  /\ obs.before.gateHintTimerSec = 0
  /\ game.gateHintTimerSec = GATE_LOCKED_HINT_SEC
  /\ game.gameState = "playing"

(* C13: the session enters levelComplete only in an update in which the    *)
(* player overlaps the exit gate while hasGoldenToy is true, and            *)
(* onLevelComplete is then invoked exactly once, with bonesCollected,       *)
(* heartsRemaining, timeSec and levelName equal to the session's counters   *)
(* at that moment and hasNextLevel equal to levelIndex + 1 < number of      *)
(* levels.  (Nothing moves in state levelComplete, so the counters and the  *)
(* overlap of that moment are those of the state.)                          *)
LevelCompleteAtGate ==
  /\ game.calls.onLevelComplete <= 1
  /\ game.gameState \in {"playing", "gameOver"} => game.calls.onLevelComplete = 0
  /\ obs.op = "frame" =>
       game.ev.onLevelComplete =
         IF obs.before.updating /\ game.gameState = "levelComplete" THEN 1 ELSE 0
  /\ game.gameState = "levelComplete" =>
       /\ OnGate
       /\ game.hasGoldenToy /\ game.goldenToy.collected
       /\ game.calls.onLevelComplete = 1
       /\ game.calls.stats =
            << [ bonesCollected |-> game.bonesCollected,
                 heartsRemaining |-> game.hearts,
                 timeSec |-> game.elapsedSec,
                 levelName |-> LEVELS[game.levelIndex + 1].name,
                 hasNextLevel |-> game.levelIndex + 1 < Len(LEVELS) ] >>

(* the player has walked into the gate with the golden toy on a level that *)
(* has a successor                                                         *)
LevelCompleteAtGate_Witness ==
  /\ obs.op = "frame" /\ obs.before.updating
  /\ game.gameState = "levelComplete"
  /\ game.ev.onLevelComplete = 1
  /\ game.hearts = MAX_HEARTS
  /\ game.calls.stats[1].hasNextLevel

(* C14: nextLevel() called on the last level sets the state to            *)
(* demoComplete, invokes onDemoComplete with the current stats, returns    *)
(* false, and leaves levelIndex and all level state unchanged; called on   *)
(* an earlier level it loads level index + 1, leaves the state playing,    *)
(* and returns true.                                                       *)
NextLevelContract ==
  obs.op \in {"load", "nextLevelRefused"} /\ obs.nextLevelCall # << >> =>
    IF obs.nextLevelCall[1].before.levelIndex + 1 >= Len(LEVELS)
    THEN /\ obs.nextLevelCall[1].result = FALSE
         /\ game.gameState = "demoComplete"
         /\ game.calls.onDemoComplete = obs.nextLevelCall[1].before.calls.onDemoComplete + 1
         /\ game.calls.stats[Len(game.calls.stats)] =
              [ bonesCollected |-> obs.nextLevelCall[1].before.bonesCollected,
                heartsRemaining |-> obs.nextLevelCall[1].before.hearts,
                timeSec |-> obs.nextLevelCall[1].before.elapsedSec,
                levelName |-> LEVELS[obs.nextLevelCall[1].before.levelIndex + 1].name ]
         /\ [game EXCEPT !.gameState = obs.nextLevelCall[1].before.gameState,
                         !.calls = obs.nextLevelCall[1].before.calls]
              = obs.nextLevelCall[1].before
    ELSE /\ obs.nextLevelCall[1].result = TRUE
         /\ game.levelIndex = obs.nextLevelCall[1].before.levelIndex + 1
         /\ game.gameState = "playing"
         /\ game.calls.onDemoComplete = 0
         /\ game.hearts = MAX_HEARTS /\ game.bonesCollected = 0 /\ game.elapsedSec = 0
         /\ ~game.hasGoldenToy /\ game.bones = << >>
         /\ game.player.x = PLAYER_START_X * PX /\ game.player.y = PLAYER_START_Y * PX
         /\ game.exitGate.x = LEVELS[game.levelIndex + 1].exitGatePosition.x
         /\ game.digSpots = generateDigSpots(LEVELS[game.levelIndex + 1].digSeed)

(* nextLevel() was called after the last level was completed *)
NextLevelContract_Witness ==
  /\ obs.op = "nextLevelRefused"
  /\ obs.nextLevelCall # << >>
  /\ obs.nextLevelCall[1].before.gameState = "levelComplete"
  /\ obs.nextLevelCall[1].before.levelIndex = Len(LEVELS) - 1
  /\ game.gameState = "demoComplete"

(* C15: the session enters demoComplete only from levelComplete on the    *)
(* last level; nextLevel() invoked in playing or gameOver never produces   *)
(* demoComplete, and demoComplete is left only by loading a level.         *)
DemoCompleteOnlyAfterLastLevel ==
  /\ obs.op = "nextLevelRefused" =>
       /\ obs.nextLevelCall[1].before.levelIndex = Len(LEVELS) - 1
       /\ obs.nextLevelCall[1].before.gameState \in {"levelComplete", "demoComplete"}
  /\ game.gameState = "demoComplete" /\ obs.op # "frame" => obs.op = "nextLevelRefused"
  /\ obs.op = "frame" =>
       (game.gameState = "demoComplete") = (obs.before.gameState = "demoComplete")

----------------------------------------------------------------------------
(* Properties of the frame loop (SpecClock).                               *)

(* C6: for every pair of consecutive frame time stamps, however large the  *)
(* gap, the delta loop() passes to update() is at most 1/30 second.        *)
DeltaAtMostMax == game.ev.delta <= MAX_DELTA

(* a frame after a stall of seconds got the largest delta *)
DeltaAtMostMax_Witness ==
  obs.op = "frame" /\ obs.gap * MS > 100 * MAX_DELTA /\ game.ev.delta = MAX_DELTA

----------------------------------------------------------------------------
(* Properties of the jump (SpecJump).                                      *)

(* C7, as stated: with playerState normal and a jump press buffered, an    *)
(* airborne player's jump executes if the frame's time stamp is at most    *)
(* COYOTE_TIME_MS after the last frame in which the player was grounded,   *)
(* and does not execute if it is more than that after.                     *)
CoyoteJump ==
  obs.op = "frame" /\ obs.airPress.case =>
    (game.ev.jumped <=> obs.airPress.sinceGroundedMs <= COYOTE_TIME_MS)

(* C7, amended: ... provided no jump and no stomp bounce has fired since   *)
(* the player was last grounded; after either, no airborne jump executes   *)
(* until the player is grounded again.                                     *)
CoyoteJumpUnlessBounced ==
  obs.op = "frame" /\ obs.airPress.case =>
    (game.ev.jumped <=>
       (obs.airPress.sinceGroundedMs <= COYOTE_TIME_MS /\ ~obs.airPress.bounced))

(* an airborne jump at the very end of the window *)
CoyoteJumpUnlessBounced_Witness ==
  /\ obs.op = "frame"
  /\ obs.airPress.case
  /\ game.ev.jumped
  /\ obs.airPress.sinceGroundedMs = COYOTE_TIME_MS

(* C8: a single jump press triggers at most one jump: once a jump fires,   *)
(* lastJumpPressedTimeMs and lastGroundedTimeMs are invalidated, and no    *)
(* later update jumps again unless a new jump press has been consumed.     *)
(* (lastGroundedTimeMs is stamped anew if the player stands on ground at   *)
(* the end of the same update.)                                            *)
OneJumpPerPress ==
  /\ obs.jumpCredit >= 0
  /\ game.ev.jumped =>
       /\ game.player.vy <= 0
       /\ game.lastJumpPressedTimeMs = NegInfinity
       /\ game.lastGroundedTimeMs = NegInfinity \/ game.ev.landed

(* a frame after a jump, Space still held, inside what would have been     *)
(* both windows, did not jump again                                        *)
OneJumpPerPress_Witness ==
  /\ obs.op = "frame"
  /\ obs.bounced
  /\ ~game.ev.jumped
  /\ game.input.state.jumpHeld
  /\ obs.jumpCredit = 0
  /\ obs.airPress.sinceGroundedMs <= COYOTE_TIME_MS

----------------------------------------------------------------------------
(* Properties of the Input object (SpecInput).                             *)

(* C9: a key held down across any number of frames, repeated keydown       *)
(* events included, yields exactly one pressed edge until it is released   *)
(* and pressed again.                                                      *)
OneEdgePerHold == \A code \in InputKeys : code \in held => obs.edges[code] <= 1

----------------------------------------------------------------------------
(* Properties of the Enemy object (SpecEnemy).                             *)

(* C10: a tank survives its first applyStomp() ("damaged", alive, hp = 1,  *)
(* below maxHp: the cracked state) and is killed by its second ("killed",  *)
(* alive false); a rat or a mouse is killed by its first.                  *)
StompOutcome ==
  \A k \in 1..Len(obs.stomped) :
    LET s == obs.stomped[k]
        first == s.before.alive /\ s.before.hp = s.before.maxHp
        second == s.before.alive /\ s.before.hp = s.before.maxHp - 1
    IN /\ s.before.type = "tank" /\ first =>
            s.result = "damaged" /\ s.after.alive /\ s.after.hp = 1 /\ s.after.hp < s.after.maxHp
       /\ s.before.type = "tank" /\ second =>
            s.result = "killed" /\ ~s.after.alive
       /\ s.before.type \in {"rat", "mouse"} /\ first =>
            s.result = "killed" /\ ~s.after.alive

(* the tank has been stomped twice: damaged, then killed *)
StompOutcome_Witness ==
  \E j, k \in 1..Len(obs.stomped) :
    /\ j < k
    /\ obs.stomped[j].before.type = "tank" /\ obs.stomped[j].result = "damaged"
    /\ obs.stomped[k].before = obs.stomped[j].after /\ obs.stomped[k].result = "killed"

(* C21: an alive enemy has 1 <= hp <= maxHp; applyStomp() on an alive      *)
(* enemy lowers hp by exactly one and clears alive exactly when hp reaches *)
(* 0; on a dead enemy it changes nothing and returns "killed"; a dead      *)
(* enemy never becomes alive again, whatever is called on it afterwards.   *)
EnemyHitPoints ==
  /\ \A i \in 1..Len(game.enemies) :
       game.enemies[i].alive =>
         1 <= game.enemies[i].hp /\ game.enemies[i].hp <= game.enemies[i].maxHp
  /\ \A k \in 1..Len(obs.stomped) :
       LET s == obs.stomped[k]
       IN /\ s.before.alive =>
               /\ s.after.hp = s.before.hp - 1
               /\ s.after.alive <=> s.after.hp # 0
               /\ s.result = IF s.after.hp = 0 THEN "killed" ELSE "damaged"
          /\ ~s.before.alive => s.after = s.before /\ s.result = "killed"
          /\ ~s.after.alive => ~game.enemies[s.index].alive

(* a dead enemy has been stomped again and then updated *)
EnemyHitPoints_Witness ==
  /\ obs.op = "enemyUpdate"
  /\ \E k \in 1..Len(obs.stomped) :
       /\ ~obs.stomped[k].before.alive
       /\ obs.stomped[k].before.type = "tank"
       /\ obs.stomped[k].result = "killed"

----------------------------------------------------------------------------
(* Properties of digging (SpecDig).                                        *)

(* C11: completing a dig on a spot with hasBone creates exactly one bone,  *)
(* in state popping; while popping its y never goes above targetY; it      *)
(* switches from popping to idle once, when popTimerSec reaches            *)
(* BONE_POP_DURATION_SEC, with y = settleY and vy = 0, and never returns   *)
(* to popping; it is deactivated, with bonesCollected incremented by one,  *)
(* only while idle and overlapping the player; an inactive bone is never   *)
(* collected again.  (obs.before holds the bones and the counter as they   *)
(* were when the frame began.)                                             *)
BoneLifecycle ==
  /\ Len(game.bones) =
       Cardinality({ i \in 1..Len(game.digSpots) :
                       game.digSpots[i].dug /\ game.digSpots[i].hasBone })
  /\ \A i \in 1..Len(game.bones) :
       /\ game.bones[i].state \in {"popping", "idle"}
       /\ game.bones[i].state = "popping" =>
            /\ game.bones[i].active
            /\ game.bones[i].y >= game.bones[i].targetY
            /\ game.bones[i].popTimerSec < BONE_POP_DURATION_SEC
       /\ game.bones[i].state = "idle" =>
            /\ game.bones[i].popTimerSec >= BONE_POP_DURATION_SEC
            /\ game.bones[i].y = game.bones[i].settleY
            /\ game.bones[i].vy = 0
  /\ obs.op = "frame" =>
       /\ Len(game.bones) \in {Len(obs.before.bones), Len(obs.before.bones) + 1}
       /\ \A i \in 1..Len(game.bones) :
            IF i > Len(obs.before.bones)
            THEN game.bones[i].state = "popping"
            ELSE /\ obs.before.bones[i].state = "idle" => game.bones[i].state = "idle"
                 /\ ~obs.before.bones[i].active => game.bones[i] = obs.before.bones[i]
                 /\ obs.before.bones[i].active /\ ~game.bones[i].active =>
                      /\ game.bones[i].state = "idle"
                      /\ intersectsWithSkin(game.player, game.bones[i], 0)
       /\ game.bonesCollected =
            obs.before.bonesCollected +
            Cardinality({ i \in 1..Len(obs.before.bones) :
                            obs.before.bones[i].active /\ ~game.bones[i].active })

(* the dog came back to a bone that had settled while it was away, and     *)
(* picked it up                                                            *)
BoneLifecycle_Witness ==
  /\ obs.op = "frame"
  /\ Len(game.bones) = 1 /\ Len(obs.before.bones) = 1
  /\ obs.before.bones[1].state = "idle" /\ obs.before.bones[1].active
  /\ ~game.bones[1].active
  /\ game.bonesCollected = 1

(* C37: in every reachable state the number of bone entities equals the   *)
(* number of dig spots that are dug and have hasBone, and bonesCollected   *)
(* equals the number of inactive bones; hence bonesCollected never exceeds *)
(* the number of bone-bearing spots of the level.                          *)
BoneCount ==
  /\ Len(game.bones)
       = Cardinality({ i \in 1..Len(game.digSpots) :
                         game.digSpots[i].dug /\ game.digSpots[i].hasBone })
  /\ game.bonesCollected
       = Cardinality({ i \in 1..Len(game.bones) : ~game.bones[i].active })
  /\ game.bonesCollected
       <= Cardinality({ i \in 1..Len(game.digSpots) : game.digSpots[i].hasBone })

(* the one bone dug up so far was collected in an earlier frame, and the   *)
(* level has more bone-bearing spots                                       *)
BoneCount_Witness ==
  /\ game.bonesCollected = 1
  /\ Len(game.bones) = 1
  /\ ~game.bones[1].active
  /\ Cardinality({ i \in 1..Len(game.digSpots) : game.digSpots[i].hasBone }) > 1
  /\ game.gameState = "playing"
  /\ obs.op = "frame" /\ obs.before.bonesCollected = 1

(* C23: the dug flag of a dig spot goes from false to true at most once    *)
(* per level load and never back; a spot that is dug is never selected for *)
(* a new dig; and a dig produces its outcome, one bone or one puff, at     *)
(* most once per spot, in the update in which the flag flips.              *)
DugOnce ==
  /\ \A j, k \in 1..Len(obs.outcomes) : j # k => obs.outcomes[j] # obs.outcomes[k]
  /\ game.playerState = "digging" =>
       /\ game.activeDigSpotIndex \in 1..Len(game.digSpots)
       /\ ~game.digSpots[game.activeDigSpotIndex].dug
  /\ obs.op = "frame" =>
       /\ Len(game.ev.outcomes) <= 1
       /\ \A i \in 1..Len(game.digSpots) :
            /\ obs.before.dug[i] => game.digSpots[i].dug
            /\ (~obs.before.dug[i] /\ game.digSpots[i].dug)
                 <=> (\E k \in 1..Len(game.ev.outcomes) : game.ev.outcomes[k] = i)
       /\ Len(game.bones) = Len(obs.before.bones)
            + Cardinality({ k \in 1..Len(game.ev.outcomes) :
                             game.digSpots[game.ev.outcomes[k]].hasBone })

(* the dog stands on a spot it has dug in this run, and a new dig press    *)
(* was consumed without starting a dig                                     *)
DugOnce_Witness ==
  /\ obs.op = "frame"
  /\ game.ev.consumedDig
  /\ game.player.grounded
  /\ game.playerState = "normal"
  /\ \E k \in 1..Len(obs.outcomes) :
       /\ intersectsWithSkin(game.player, game.digSpots[obs.outcomes[k]], 0)
       /\ game.digSpots[obs.outcomes[k]].dug
       /\ ~game.digSpots[obs.outcomes[k]].hasBone

(* the dig spots whose dug flag differs from what it was when the frame    *)
(* began                                                                   *)
Flipped == { i \in 1..Len(game.digSpots) : game.digSpots[i].dug # obs.before.dug[i] }

(* C36: playerState is digging if and only if activeDigSpotIndex is        *)
(* non-null, and while digging the index refers to an existing dig spot of *)
(* the current level that is not yet dug; so every dig that completes      *)
(* flips exactly one spot (and no other frame flips any).                  *)
DigTarget ==
  /\ game.playerState = "digging" <=> game.activeDigSpotIndex # NoSpot
  /\ game.playerState = "digging" =>
       /\ game.activeDigSpotIndex \in 1..Len(game.digSpots)
       /\ game.digSpots = [ i \in 1..Len(game.digSpots) |->
                              [generateDigSpots(currentLevel(game).digSeed)[i]
                                 EXCEPT !.dug = game.digSpots[i].dug] ]
       /\ ~game.digSpots[game.activeDigSpotIndex].dug
  /\ obs.op = "frame" =>
       IF obs.before.playerState = "digging" /\ game.playerState = "normal"
       THEN /\ Flipped = {obs.dig.spot}
            /\ game.digSpots[obs.dig.spot].dug
       ELSE Flipped = {}

(* a dig completes on a spot with a bone: the state is normal again, no    *)
(* spot is targeted, and the one spot is dug                               *)
DigTarget_Witness ==
  /\ obs.op = "frame"
  /\ obs.before.playerState = "digging"
  /\ game.playerState = "normal"
  /\ game.activeDigSpotIndex = NoSpot
  /\ Cardinality(Flipped) = 1
  /\ \A i \in Flipped : game.digSpots[i].hasBone /\ game.digSpots[i].dug

----------------------------------------------------------------------------
(* Properties of dig-spot generation (SpecRng).                            *)

IsPrefix(s, t) == Len(s) <= Len(t) /\ \A i \in 1..Len(s) : s[i] = t[i]

DigSpotsPlacement ==
  \A r \in 1..2 :
    game.runs[r].local # << >> =>
      LET level == currentLevel(game.runs[r].this)
          ground == getMainGroundPlatform(level.platforms)
          spots == game.runs[r].local[1].spots
      IN /\ \A i, j \in 1..Len(spots) :
              i # j =>
                /\ Abs((spots[i].x + spots[i].w \div 2) - (spots[j].x + spots[j].w \div 2))
                     >= DIG_MIN_SPOT_SPACING * PX
                /\ ~intersectsWithSkin(spots[i], spots[j], 0)
         /\ \A i \in 1..Len(spots) :
              /\ \A k \in 1..Len(level.enemySpawnPoints) :
                   Abs((spots[i].x + spots[i].w \div 2) - level.enemySpawnPoints[k].x)
                     >= DIG_MIN_DISTANCE_FROM_ENEMY * PX
              /\ spots[i].x >= ground.x + DIG_MIN_DISTANCE_FROM_START * PX
              /\ spots[i].x + spots[i].w <= ground.x + ground.w
              /\ spots[i].y + spots[i].h = ground.y

(* the first call has filled its list, which took more attempts than       *)
(* spots, before the second call began                                     *)
DigSpotsPlacement_Witness ==
  /\ game.runs[2].local = << >>
  /\ game.runs[1].local # << >>
  /\ Len(game.runs[1].local[1].spots) = game.runs[1].local[1].count
  /\ game.runs[1].local[1].attempts >= game.runs[1].local[1].count + 2

----------------------------------------------------------------------------
(* Properties of movement (SpecMove).                                      *)

(* the rectangle overlaps a platform of the level by more than the skin *)
Penetrates(rect) ==
  \E i \in 1..Len(currentLevel(game).platforms) :
    intersectsWithSkin(rect, currentLevel(game).platforms[i], COLLISION_SKIN)

(* C17: after every update the player's rectangle and every alive enemy's  *)
(* rectangle penetrate no platform of the level by more than              *)
(* COLLISION_SKIN.                                                         *)
NoPenetration ==
  game.isRunning =>
    /\ ~Penetrates(game.player)
    /\ \A i \in 1..Len(game.enemies) :
         isAlive(game.enemies[i]) => ~Penetrates(getBody(game.enemies[i]))

(* the player has walked into the side of the ledge at x = 668 and the     *)
(* tank into the side of the ledge at x = 1708; both were put back         *)
NoPenetration_Witness ==
  /\ obs.frames > 0
  /\ game.player.x = LEVELS[1].platforms[6].x - game.player.w + COLLISION_SKIN
  /\ game.player.vx = 0
  /\ Len(game.enemies) = 1
  /\ game.enemies[1].x = LEVELS[1].platforms[14].x - game.enemies[1].width + COLLISION_SKIN
  /\ game.enemies[1].facing = -1

(* C18: after every update and every level load the player is within the  *)
(* level's horizontal bounds, 0 <= player.x <= levelWidth - player.w.      *)
PlayerWithinLevel ==
  /\ 0 <= game.player.x
  /\ game.player.x <= currentLevel(game).width - game.player.w

(* a hazard hit has thrown the player against the left end of the level *)
PlayerWithinLevel_Witness ==
  /\ obs.frames > 0
  /\ game.hearts < MAX_HEARTS
  /\ game.player.x = 0
  /\ ~game.player.grounded

(* C19: in every reachable state |player.vx| <= MAX_SPEED and              *)
(* player.vy <= TERMINAL_VELOCITY, in the normal and the digging action    *)
(* state and after hazard knockback.                                       *)
VelocityClamped ==
  /\ Abs(game.player.vx) <= Speed(MAX_SPEED)
  /\ game.player.vy <= Speed(TERMINAL_VELOCITY)

----------------------------------------------------------------------------
(* Properties of the enemy wave (SpecWave).                                *)

(* C20: after any sequence of wave spawns, kills, respawns and level       *)
(* loads the active set holds at most MAX_ENEMIES_ALIVE enemies, and       *)
(* every enemy in it at the end of an update is alive.                     *)
EnemyPopulation ==
  /\ Len(game.enemies) <= MAX_ENEMIES_ALIVE
  /\ \A i \in 1..Len(game.enemies) : isAlive(game.enemies[i]) /\ game.enemies[i].hp > 0

(* the set is full after a spawn, and a respawn that found it full waits   *)
(* for its retry                                                           *)
EnemyPopulation_Witness ==
  /\ obs.op = "frame"
  /\ Len(game.enemies) = MAX_ENEMIES_ALIVE
  /\ game.enemies[MAX_ENEMIES_ALIVE].spawnTimerSec > 0
  /\ game.pendingRespawnTimers = << ENEMY_RESPAWN_RETRY_SEC >>

(* a spawn point qualifies for an enemy of a type: its centre is far       *)
(* enough from the player's and from every other enemy's, the enemy's body *)
(* overlaps no platform and a platform lies directly beneath it            *)
SpawnPointQualifies(level, enemyType, spawnPoint, player, others) ==
  LET w == ENEMY_STATS[enemyType].width
      h == ENEMY_STATS[enemyType].height
      top == spawnPoint.groundY - h - PX \div 100
      centre == spawnPoint.x + w \div 2
  IN /\ Abs(centre - (player.x + player.w \div 2)) >= ENEMY_MIN_PLAYER_DISTANCE_X * PX
     /\ \A i \in 1..Len(others) :
          Abs(centre - (others[i].x + others[i].width \div 2)) >= ENEMY_MIN_SEPARATION_X * PX
     /\ \A i \in 1..Len(level.platforms) :
          LET platform == level.platforms[i]
          IN ~(/\ spawnPoint.x < platform.x + platform.w
               /\ spawnPoint.x + w > platform.x
               /\ top < platform.y + platform.h
               /\ top + h > platform.y)
     /\ \E i \in 1..Len(level.platforms) :
          LET platform == level.platforms[i]
          IN /\ platform.x <= centre /\ centre <= platform.x + platform.w
             /\ top + h <= platform.y /\ platform.y <= top + h + 2 * PX

(* C32: every enemy added by spawnEnemyIfPossible is placed at a spawn     *)
(* point of the level that, at the moment of spawning, has its centre at   *)
(* least ENEMY_MIN_PLAYER_DISTANCE_X from the player's centre and at least *)
(* ENEMY_MIN_SEPARATION_X from the centre of every enemy already in the    *)
(* active set, overlaps no platform and has a platform directly beneath    *)
(* it; a call that returns false leaves the enemy set as it was, and when  *)
(* the set had room no spawn point qualified.  (game.ev.spawns holds one   *)
(* record per call made during the frame; the enemy of a level load is     *)
(* still where the load put it.)                                           *)
SpawnPlacement ==
  /\ obs.op = "load" =>
       \A k \in 1..Len(game.enemies) :
          \E i \in 1..Len(currentLevel(game).enemySpawnPoints) :
             LET spawnPoint == currentLevel(game).enemySpawnPoints[i]
             IN /\ game.enemies[k].x = spawnPoint.x
                /\ game.enemies[k].y = spawnPoint.groundY - game.enemies[k].height - PX \div 100
                /\ SpawnPointQualifies(currentLevel(game), game.enemies[k].type, spawnPoint,
                                       game.player, << >>)
  /\ \A k \in 1..Len(game.ev.spawns) :
        LET call == game.ev.spawns[k]
            level == currentLevel(game)
        IN IF call.result
           THEN /\ Len(call.after) = Len(call.before) + 1
                /\ SubSeq(call.after, 1, Len(call.before)) = call.before
                /\ \E i \in 1..Len(level.enemySpawnPoints) :
                     LET spawnPoint == level.enemySpawnPoints[i]
                         enemy == call.after[Len(call.after)]
                     IN /\ enemy.type = call.enemyType
                        /\ enemy.x = spawnPoint.x
                        /\ enemy.y = spawnPoint.groundY - enemy.height - PX \div 100
                        /\ SpawnPointQualifies(level, enemy.type, spawnPoint, call.player, call.before)
           ELSE /\ call.after = call.before
                /\ \/ Len(call.before) >= MAX_ENEMIES_ALIVE
                   \/ \A i \in 1..Len(level.enemySpawnPoints) :
                         ~SpawnPointQualifies(level, call.enemyType, level.enemySpawnPoints[i],
                                              call.player, call.before)

(* in one frame a spawn succeeds although the spawn points near the dog    *)
(* and near an enemy do not qualify, and the next call finds the set full  *)
SpawnPlacement_Witness ==
  /\ obs.op = "frame"
  /\ Len(game.ev.spawns) = 2
  /\ game.ev.spawns[1].result /\ ~game.ev.spawns[2].result
  /\ game.ev.spawns[2].after = game.ev.spawns[2].before
  /\ LET call == game.ev.spawns[1]
         level == currentLevel(game)
     IN /\ \E i \in 1..Len(level.enemySpawnPoints) :
             Abs(level.enemySpawnPoints[i].x + ENEMY_STATS[call.enemyType].width \div 2
                 - (call.player.x + call.player.w \div 2)) < ENEMY_MIN_PLAYER_DISTANCE_X * PX
        /\ \E i \in 1..Len(level.enemySpawnPoints), j \in 1..Len(call.before) :
             Abs(level.enemySpawnPoints[i].x + ENEMY_STATS[call.enemyType].width \div 2
                 - (call.before[j].x + call.before[j].width \div 2)) < ENEMY_MIN_SEPARATION_X * PX

(* the concatenation of a sequence of sequences *)
RECURSIVE Flatten(_)
Flatten(seqs) == IF seqs = << >> THEN << >> ELSE Head(seqs) \o Flatten(Tail(seqs))

(* the respawn timers after an update of delta: a timer with time left is  *)
(* delta shorter; the timers that ran out attempted a spawn each, from the *)
(* last to the first, with the results of calls; one whose spawn succeeded *)
(* is gone and one whose spawn failed waits for its retry                  *)
RespawnsAfter(timers, delta, calls) ==
  Flatten([ i \in 1..Len(timers) |->
              IF timers[i] - delta > 0
              THEN << timers[i] - delta >>
              ELSE IF calls[Cardinality({ j \in i..Len(timers) : timers[j] - delta <= 0 })].result
              THEN << >>
              ELSE << ENEMY_RESPAWN_RETRY_SEC >> ])

(* C33: each kill queues exactly one respawn timer; when a respawn timer   *)
(* expires a spawn is attempted, the timer is removed only if that spawn   *)
(* succeeds, and on failure it is reset to the 1.0 s retry delay; a queued *)
(* respawn is never dropped except by a level load.  (obs.before holds the *)
(* queue and the spawn timer as they were when the frame began; the wave   *)
(* spawn, if due, is the first call of the frame.)                         *)
RespawnQueue ==
  /\ obs.op = "frame" /\ obs.before.updating =>
       LET delta == game.ev.delta
           timers == obs.before.pendingRespawnTimers
           wave == Number(obs.before.spawnTimerSec - delta <= 0)
           expired == Cardinality({ i \in 1..Len(timers) : timers[i] - delta <= 0 })
           kills == Cardinality({ k \in 1..Len(game.ev.stomped) :
                                    game.ev.stomped[k].result = "killed" })
           kept == RespawnsAfter(timers, delta, SubSeq(game.ev.spawns, wave + 1, wave + expired))
       IN /\ Len(game.ev.spawns) = wave + expired
          /\ Len(game.pendingRespawnTimers) = Len(kept) + kills
          /\ SubSeq(game.pendingRespawnTimers, 1, Len(kept)) = kept
          /\ \A i \in Len(kept) + 1..Len(game.pendingRespawnTimers) :
               /\ game.pendingRespawnTimers[i] >= ENEMY_RESPAWN_DELAY_MIN_SEC * SEC
               /\ game.pendingRespawnTimers[i] <= ENEMY_RESPAWN_DELAY_MAX_SEC * SEC
  /\ obs.op = "frame" /\ ~obs.before.updating =>
       game.pendingRespawnTimers = obs.before.pendingRespawnTimers

(* the spawn of an expired respawn timer failed, the timer waits one       *)
(* second, and the kill of the same frame has queued one more timer        *)
RespawnQueue_Witness ==
  /\ obs.op = "frame"
  /\ Len(obs.before.pendingRespawnTimers) = 1
  /\ Len(game.ev.spawns) = 1 /\ ~game.ev.spawns[1].result
  /\ Len(game.ev.stomped) = 1 /\ game.ev.stomped[1].result = "killed"
  /\ Len(game.pendingRespawnTimers) = 2
  /\ game.pendingRespawnTimers[1] = ENEMY_RESPAWN_RETRY_SEC

(* C38: the pending-respawn queue stays bounded: the number of enemies in  *)
(* the active set plus the number of pending respawn timers never exceeds  *)
(* MAX_ENEMIES_ALIVE, for any interleaving of timed wave spawns, kills and *)
(* respawn retries.                                                        *)
RespawnQueueBounded ==
  Len(game.enemies) + Len(game.pendingRespawnTimers) <= MAX_ENEMIES_ALIVE

----------------------------------------------------------------------------
(* Properties of the particle pool (SpecPool).                             *)

(* the last n elements of a sequence *)
LastN(seq, n) == IF Len(seq) > n THEN SubSeq(seq, Len(seq) - n + 1, Len(seq)) ELSE seq

(* the particles delta older, without those whose life has run out *)
Aged(particles, delta) ==
  SelectSeq([i \in 1..Len(particles) |-> [particles[i] EXCEPT !.lifeSec = @ - delta]],
            LAMBDA p : p.lifeSec > 0)

(* C24: the pool never holds more than DIG_PARTICLE_MAX_COUNT particles;   *)
(* when pushes exceed the cap the oldest particles are the ones evicted;   *)
(* every lifeSec only decreases, by the delta of each update, and a        *)
(* particle is removed in the update in which its lifeSec becomes <= 0.    *)
(* (obs.before holds the pool as it was when the frame began, game.ev the  *)
(* particles pushed during the frame, in order.)                           *)
ParticlePool ==
  /\ Len(game.digParticles) <= DIG_PARTICLE_MAX_COUNT
  /\ \A i \in 1..Len(game.digParticles) :
       /\ game.digParticles[i].lifeSec > 0
       /\ game.digParticles[i].lifeSec <= game.digParticles[i].maxLifeSec
  /\ obs.op = "frame" /\ obs.before.updating =>
       game.digParticles =
         Aged(LastN(obs.before.digParticles \o game.ev.pushed, DIG_PARTICLE_MAX_COUNT),
              game.ev.delta)

(* more particles were pushed in the frame than the pool had room for, and *)
(* the oldest particle of the pool had life left                           *)
ParticlePool_Witness ==
  /\ obs.op = "frame"
  /\ Len(obs.before.digParticles) + Len(game.ev.pushed) > DIG_PARTICLE_MAX_COUNT
  /\ obs.before.digParticles # << >>
  /\ obs.before.digParticles[1].lifeSec > game.ev.delta
  /\ Len(game.digParticles) = DIG_PARTICLE_MAX_COUNT

-----------------------------------------------------------------------------
(* Properties of the session outside play (Spec)                           *)

(* C25: when the session state is not playing (gameOver, levelComplete or  *)
(* demoComplete), update(delta) changes nothing: hearts, bonesCollected,   *)
(* elapsedSec, the timers, the player, the enemies, the spawn and respawn  *)
(* timers, the dig spots, the bones, the particles and the camera are as   *)
(* they were, and no callback or sound event is emitted.                   *)
UpdateGated ==
  obs.op = "frame" /\ obs.before.gameState # "playing" =>
    /\ Still(game) = obs.before.still
    /\ game.ev = [NoEvents EXCEPT !.delta = game.ev.delta]

UpdateGated_Witness ==
  /\ obs.op = "frame"
  /\ obs.before.gameState = "gameOver"
  /\ game.ev.delta > 0
  /\ game.invincibleTimerSec > 0
  /\ game.player.vx # 0
  /\ \E i \in 1..Len(game.enemies) : game.enemies[i].alive /\ game.enemies[i].vx # 0

-----------------------------------------------------------------------------
(* Properties of encounters (SpecHit)                                      *)

(* C27: the player never loses a heart to an enemy that is spawning        *)
(* (spawnTimerSec > 0) or hit-stunned (hitStunTimerSec > 0):               *)
(* canDamagePlayer() is false in exactly those states (and when dead), and *)
(* a hazard hit is applied only when the overlapping enemy's               *)
(* canDamagePlayer() is true.                                              *)
HazardOnlyFromDamaging ==
  /\ \A i \in 1..Len(game.enemies) :
       canDamagePlayer(game.enemies[i]) <=>
         ~(~game.enemies[i].alive \/ game.enemies[i].spawnTimerSec > 0
                                  \/ game.enemies[i].hitStunTimerSec > 0)
  /\ obs.op = "frame" =>
       /\ Len(game.ev.hitBy) = game.ev.hazards
       /\ game.hearts = obs.before.hearts - game.ev.heartsLost
       /\ game.ev.heartsLost <= game.ev.hazards
       /\ \A k \in 1..Len(game.ev.hitBy) :
            /\ canDamagePlayer(game.ev.hitBy[k])
            /\ game.ev.hitBy[k].alive
            /\ game.ev.hitBy[k].spawnTimerSec <= 0
            /\ game.ev.hitBy[k].hitStunTimerSec <= 0
            /\ intersectsWithSkin(game.player, getBody(game.ev.hitBy[k]), 0)

(* the dog, not invincible and on its way up, overlaps a hit-stunned tank  *)
(* and keeps its hearts                                                    *)
HazardOnlyFromDamaging_Witness ==
  /\ obs.op = "frame"
  /\ game.ev.stomps = 0
  /\ game.ev.hazards = 0
  /\ game.player.vy <= 0
  /\ game.invincibleTimerSec = 0
  /\ game.hearts = obs.before.hearts
  /\ \E i \in 1..Len(game.enemies) :
       /\ game.enemies[i].alive
       /\ game.enemies[i].hitStunTimerSec > 0
       /\ intersectsWithSkin(game.player, getBody(game.enemies[i]), 0)

(* C28: encounters, stomps included, are resolved only against alive,      *)
(* damage-capable enemies: applyStomp is applied only to an overlapping    *)
(* enemy whose canDamagePlayer() is true, so an enemy that is still        *)
(* spawning or is hit-stunned from a previous stomp is not stomped (a tank *)
(* cannot take its second stomp during the hit-stun of the first).         *)
StompOnlyDamaging ==
  obs.op = "frame" =>
    \A k \in 1..Len(game.ev.stomped) :
      /\ game.ev.stomped[k].before.alive
      /\ canDamagePlayer(game.ev.stomped[k].before)

(* C29: hearts never decrease while invincibleTimerSec > 0: a hazard hit   *)
(* sets the timer to PLAYER_IFRAMES_SEC (1.0 s), the timer only counts     *)
(* down (never below 0) during playing updates, and any two heart losses   *)
(* within one level are separated by at least 1.0 s of accumulated         *)
(* simulated time.                                                         *)
InvincibilityWindow ==
  /\ game.invincibleTimerSec >= 0
  /\ game.invincibleTimerSec <= PLAYER_IFRAMES_SEC
  /\ obs.op = "frame" /\ obs.before.updating =>
       IF game.ev.hazards > 0
       THEN /\ Max(0, obs.before.invincibleTimerSec - game.ev.delta) = 0
            /\ game.invincibleTimerSec = PLAYER_IFRAMES_SEC
            /\ game.hearts = obs.before.hearts - 1
       ELSE /\ game.invincibleTimerSec = Max(0, obs.before.invincibleTimerSec - game.ev.delta)
            /\ game.hearts = obs.before.hearts
  /\ obs.op = "frame" /\ ~obs.before.updating =>
       /\ game.invincibleTimerSec = obs.before.invincibleTimerSec
       /\ game.hearts = obs.before.hearts
  /\ \A k \in 1..(Len(obs.losses) - 1) :
       obs.losses[k + 1] - obs.losses[k] >= PLAYER_IFRAMES_SEC

(* the second heart is lost in the update in which the timer of the first  *)
(* loss runs out, the enemy having overlapped the dog before that          *)
InvincibilityWindow_Witness ==
  /\ obs.op = "frame"
  /\ game.ev.hazards = 1
  /\ Len(obs.losses) = 2
  /\ obs.losses[2] - obs.losses[1] = PLAYER_IFRAMES_SEC
  /\ obs.before.invincibleTimerSec > 0
  /\ game.hearts = MAX_HEARTS - 2

(* C30: while playerState is digging the player cannot move: from the      *)
(* update that starts a dig until the update that completes it, player.x   *)
(* does not change, regardless of directional input, jump presses, or      *)
(* contact with enemies.                                                   *)
DiggingStill ==
  obs.op = "frame" /\ (obs.before.playerState = "digging" \/ game.playerState = "digging") =>
    game.player.x = obs.before.x

-----------------------------------------------------------------------------
(* Properties of a dig from start to end (SpecDigRun)                      *)

DigUnderWay ==
  /\ game.playerState = "digging" =>
       /\ obs.dig.spot = game.activeDigSpotIndex
       /\ obs.dig.delta < DIG_DURATION_SEC
       /\ game.digTimerSec = DIG_DURATION_SEC - obs.dig.delta
  /\ obs.op = "frame" /\ obs.before.playerState = "normal" /\ game.playerState = "digging" =>
       /\ game.ev.consumedDig
       /\ obs.dig.spot \in 1..Len(game.digSpots)
       /\ ~obs.before.dug[obs.dig.spot]
       /\ intersectsWithSkin([game.player EXCEPT !.x = obs.before.x],
                             game.digSpots[obs.dig.spot], 0)
  /\ obs.op = "frame" /\ obs.before.playerState = "digging" =>
       IF obs.before.updating /\ obs.dig.delta >= DIG_DURATION_SEC
       THEN /\ game.playerState = "normal"
            /\ obs.dig.delta - game.ev.delta < DIG_DURATION_SEC
            /\ game.digSpots[obs.dig.spot].dug
            /\ game.ev.outcomes = << obs.dig.spot >>
       ELSE game.playerState = "digging"

(* C31: a dig, once started (only when playerState is normal, a dig press  *)
(* is consumed, the player is grounded and overlaps an undug spot), cannot *)
(* be cancelled except by a level load: playerState stays digging through  *)
(* input, stomps and hazard hits, and as long as the session stays playing *)
(* and frames with positive delta keep arriving, the dig eventually        *)
(* completes after DIG_DURATION_SEC (0.5 s) of accumulated delta,          *)
(* returning playerState to normal and marking the targeted spot dug.      *)
DigRunsToCompletion ==
  /\ []DigUnderWay
  /\ game.playerState = "digging"
       ~> \/ /\ game.playerState = "normal"
             /\ obs.dig.delta >= DIG_DURATION_SEC
             /\ game.digSpots[obs.dig.spot].dug
          \/ game.gameState # "playing"

(* the dig pays out in the update that brings its deltas to 0.5 s, after   *)
(* a hazard hit during the dig                                             *)
DigRunsToCompletion_Witness ==
  /\ obs.op = "frame"
  /\ obs.before.playerState = "digging"
  /\ game.playerState = "normal"
  /\ obs.dig.delta = DIG_DURATION_SEC
  /\ game.hearts = MAX_HEARTS - 1
  /\ game.player.x # game.digSpots[obs.dig.spot].x
  /\ game.digSpots[obs.dig.spot].dug
  /\ held = {"ArrowDown", "Space", "ArrowLeft"}

----------------------------------------------------------------------------
(* Properties of the dig-spot loop (SpecSpots).                            *)

(* the call has returned *)
SpotsReturned == game.local # << >> /\ DigSpotsDone(game.local[1])

(* C34: generateDigSpots always terminates after at most 300 placement     *)
(* attempts, for every seed and level geometry, and returns between 0 and  *)
(* the drawn target count of spots, the target being in                    *)
(* [DIG_SPOT_MIN_COUNT, DIG_SPOT_MAX_COUNT]; when placements cannot be     *)
(* found it returns fewer spots instead of looping.                        *)
DigSpotsTerminate ==
  /\ [](game.local # << >> =>
          /\ game.local[1].attempts <= 300
          /\ game.local[1].count >= DIG_SPOT_MIN_COUNT
          /\ game.local[1].count <= DIG_SPOT_MAX_COUNT
          /\ Len(game.local[1].spots) <= game.local[1].count
          /\ Len(game.local[1].spots) <= game.local[1].attempts
          /\ SpotsReturned =>
               \/ Len(game.local[1].spots) = game.local[1].count
               \/ game.local[1].attempts = 300)
  /\ <>SpotsReturned

(* the call returns after 300 attempts with spots, but fewer than the      *)
(* target                                                                  *)
DigSpotsTerminate_Witness ==
  /\ SpotsReturned
  /\ game.local[1].attempts = 300
  /\ Len(game.local[1].spots) > 0
  /\ Len(game.local[1].spots) < game.local[1].count

----------------------------------------------------------------------------
(* Properties of the patrol (SpecPatrol).                                  *)

(* a platform lies under the point two pixels ahead of the enemy's leading *)
(* edge and two pixels below its feet                                      *)
GroundAhead(e, facing, platforms) ==
  \E i \in 1..Len(platforms) :
     LET platform == platforms[i]
         probeX == IF facing = 1 THEN e.x + e.width + 2 * PX ELSE e.x - 2 * PX
         probeY == e.y + e.height + 2 * PX
     IN /\ platform.x <= probeX /\ probeX <= platform.x + platform.w
        /\ platform.y <= probeY /\ probeY <= platform.y + platform.h + 1 * PX

(* the enemy's body at x overlaps the platform by more than the skin *)
Collides(e, x, platform) ==
  /\ x + COLLISION_SKIN < platform.x + platform.w
  /\ x + e.width - COLLISION_SKIN > platform.x
  /\ e.y + COLLISION_SKIN < platform.y + platform.h
  /\ e.y + e.height - COLLISION_SKIN > platform.y

(* the enemy rests on a platform: its feet are a skin deep in the top of a *)
(* platform that its body overlaps horizontally                            *)
StandsOnPlatform(e, platforms) ==
  \E i \in 1..Len(platforms) :
     /\ e.y + e.height - COLLISION_SKIN = platforms[i].y
     /\ e.x + e.width - COLLISION_SKIN > platforms[i].x
     /\ e.x + COLLISION_SKIN < platforms[i].x + platforms[i].w

(* C35: a patrolling enemy that is not hit-stunned reverses its facing     *)
(* when it is grounded and the forward-and-down probe finds no platform    *)
(* ahead, and when its horizontal move collides with a platform (it is     *)
(* snapped to the platform edge and reversed); while hit-stunned it        *)
(* neither moves horizontally nor reverses; a grounded enemy never walks   *)
(* off the edge of the platform it stands on.  (obs.patrol holds the       *)
(* enemies as they were before the update.)                                *)
PatrolReversal ==
  obs.op = "enemyUpdate" =>
    \A i \in 1..Len(game.enemies) :
       LET before == obs.patrol[i]
           after == game.enemies[i]
           platforms == currentLevel(game).platforms
           ledge == before.grounded /\ ~GroundAhead(before, before.facing, platforms)
           heading == IF ledge THEN -before.facing ELSE before.facing
           x == before.x + before.speed * heading * MAX_DELTA
           walls == { k \in 1..Len(platforms) : Collides(before, x, platforms[k]) }
       IN before.alive =>
            /\ IF before.hitStunTimerSec > MAX_DELTA
               THEN after.x = before.x /\ after.facing = before.facing /\ after.vx = 0
               ELSE IF walls = {}
               THEN after.x = x
                    /\ after.facing = heading
               ELSE /\ after.facing = -heading
                    /\ \E k \in walls :
                         after.x = IF heading = 1
                                   THEN platforms[k].x - before.width + COLLISION_SKIN
                                   ELSE platforms[k].x + platforms[k].w - COLLISION_SKIN
            /\ before.grounded => after.grounded /\ StandsOnPlatform(after, platforms)

(* in one update the rat turns round at the right end of the ground, a     *)
(* tank walks into the side of a platform, is put back against it and      *)
(* turns round, and the tank that was stomped stands still                 *)
PatrolReversal_Witness ==
  /\ obs.op = "enemyUpdate"
  /\ Len(obs.stomped) = 1 /\ obs.stomped[1].result = "damaged"
  /\ \E i, j, k \in 1..Len(game.enemies) :
       /\ obs.patrol[i].grounded /\ obs.patrol[i].facing = 1 /\ game.enemies[i].facing = -1
       /\ game.enemies[i].x < obs.patrol[i].x
       /\ obs.patrol[j].facing = -1 /\ game.enemies[j].facing = 1
       /\ game.enemies[j].x = 1772 * PX - COLLISION_SKIN
       /\ obs.patrol[k].hitStunTimerSec > MAX_DELTA
       /\ game.enemies[k].x = obs.patrol[k].x /\ game.enemies[k].vx = 0

----------------------------------------------------------------------------
(* Properties of the frame clock (SpecClock).                              *)

(* C39: the delta passed to update() is never negative, for every pair of  *)
(* timestamps seen by loop(), including a first animation-frame timestamp  *)
(* that is earlier than the performance.now() value recorded by start();   *)
(* consequently elapsedSec never decreases between level loads and timers  *)
(* never count upward.                                                     *)
DeltaNeverNegative ==
  obs.op = "frame" =>
    /\ game.ev.delta >= 0
    /\ game.elapsedSec >= obs.before.elapsedSec
    /\ game.levelTitleTimerSec <= obs.before.levelTitleTimerSec
    /\ game.ev.heartsLost = 0 => game.invincibleTimerSec <= obs.before.invincibleTimerSec

----------------------------------------------------------------------------
(* Properties of the frame loop (SpecLoop).                                *)

(* C40: however many times start() is called, at most one frame loop is    *)
(* ever scheduled: every display frame runs exactly one update(), one      *)
(* render() and one input.endFrame(), in that order, so a pressed flag set *)
(* before a frame is visible to that frame's update and cleared before the *)
(* next.  (raf counts the scheduled callbacks; obs.pressed holds the       *)
(* pressed flags as they were when the frame began; render() changes no    *)
(* state.)                                                                 *)
OneFrameLoop ==
  /\ raf = Number(game.isRunning)
  /\ raf <= 1
  /\ obs.op = "frame" =>
       /\ ~game.input.state.jumpPressed /\ ~game.input.state.digPressed
       /\ ~game.input.hasConsumedJump /\ ~game.input.hasConsumedDig
       /\ obs.before.updating => game.elapsedSec = obs.before.elapsedSec + game.ev.delta
       /\ game.ev.consumedJump => obs.pressed.jump
       /\ game.ev.consumedDig => obs.pressed.dig
       /\ obs.before.updating /\ obs.before.playerState = "normal" /\ obs.pressed.dig
            => game.ev.consumedDig
       /\ obs.before.updating /\ obs.before.playerState = "normal"
            /\ game.playerState = "normal" /\ obs.pressed.jump
            => game.ev.consumedJump

(* start() has been called three times, twice with the loop running; the   *)
(* second frame consumed the Space and ArrowDown presses made since the    *)
(* first, and both flags are clear again                                   *)
OneFrameLoop_Witness ==
  /\ obs.op = "frame"
  /\ obs.starts = MaxStarts
  /\ obs.frames = 2
  /\ raf = 1
  /\ obs.pressed.jump /\ obs.pressed.dig
  /\ game.ev.consumedJump /\ game.ev.consumedDig
  /\ ~game.input.state.jumpPressed /\ ~game.input.state.digPressed
  /\ held = {"Space", "ArrowDown"}


====
